---- MODULE Spec2Model ----
(***************************************************************************)
(* Trip-matching and timing-constraint engine of the travel supervisor:    *)
(* agents/travel/travel_logic.py (extract_arrival_datetime,                *)
(* filter_valid_hotels, filter_hotels_by_rating,                           *)
(* _get_hotel_checkin_datetime, find_cheapest_plan) and the cost           *)
(* breakdown of TravelGraph._format_travel_plan.                           *)
(*                                                                         *)
(* Instants are seconds since day 0, 00:00:00.  Ratings are tenths of a    *)
(* star (3.7 is 37).  A field of an offer record is a tagged value         *)
(* [t, v]: the tag t is the Python type, and for a string the format its   *)
(* text is in; v is the number the text (or the number) denotes.           *)
(***************************************************************************)
EXTENDS Integers, Sequences, FiniteSets, TLC

\* ------------------------------------------------------------------ bounds
MaxFlights == 2
MaxHotels == 2
MaxNights == 2

\* ------------------------------------------------------- program constants
MIN_OVERALL_RATING == 37
MIN_LOCATION_RATING == 40
RELAXED_OVERALL_RATING == 30
HOUR == 60 * 60
DAY == 24 * HOUR

\* --------------------------------------------------------- field values
Val(t, v) == [t |-> t, v |-> v]
\* the key is not in the dict
Absent == Val("absent", 0)
\* Python None
None == Val("none", 0)
\* int or float
Num(n) == Val("num", n)
\* the empty string
EmptyStr == Val("empty", 0)
\* a string that is in none of the formats the code parses
Text == Val("text", 0)
\* a malformed string that contains "AM" or "PM"
TextAmPm == Val("text_ampm", 0)
\* float('inf')
Inf == Val("inf", 0)

At(d, h, m, s) == d * DAY + h * HOUR + m * 60 + s
\* "YYYY-MM-DD HH:MM", "YYYY-MM-DDTHH:MM", "YYYY-MM-DD HH:MM:SS", "HH:MM"
DtSpace(d, h, m) == Val("dt_space", At(d, h, m, 0))
DtIso(d, h, m) == Val("dt_iso", At(d, h, m, 0))
DtSec(d, h, m, s) == Val("dt_sec", At(d, h, m, s))
Hm24(h, m) == Val("hm24", At(0, h, m, 0))
\* "H:MM AM/PM"
Hm12(h, m) == Val("hm12", At(0, h, m, 0))
\* "YYYY-MM-DD"
Ymd(d) == Val("ymd", d)

StringTags ==
  {"empty", "text", "text_ampm", "dt_space", "dt_iso", "dt_sec", "hm24", "hm12", "ymd"}
IsStr(x) == x.t \in StringTags

\* truth value of a Python object
Truthy(x) ==
  CASE x.t = "none" -> FALSE
    [] x.t = "empty" -> FALSE
    [] x.t = "num" -> x.v # 0
    [] OTHER -> TRUE

\* a or b
Or(a, b) == IF Truthy(a) THEN a ELSE b

\* dict.get(key, default); dict.get(key) is Get(d, key, None)
Get(d, key, default) == IF d[key] = Absent THEN default ELSE d[key]

\* datetime.date() as a day number, datetime.time() as seconds of the day
DateOf(dt) == dt \div DAY
TimeOf(dt) == dt % DAY
Combine(date, time) == date * DAY + time

\* ------------------------------------------------------- call outcomes
Raise == [kind |-> "raise", v |-> 0]
RetNone == [kind |-> "none", v |-> 0]
Ret(x) == [kind |-> "value", v |-> x]
Unset == [kind |-> "unset", v |-> 0]

Range(s) == {s[i] : i \in 1..Len(s)}
BoundedSeq(S, n) == UNION {[1..k -> S] : k \in 0..n}
\* the lists of at most n different elements of S
Lists(S, n) ==
  {s \in BoundedSeq(S, n) : \A i, j \in 1..Len(s) : i # j => s[i] # s[j]}

\* ------------------------------------------------ extract_arrival_datetime
ArrivalFormats == {"dt_space", "dt_iso", "dt_sec"}

extract_arrival_datetime(flight) ==
  LET arrival_time_str == Get(flight, "arrival_time", EmptyStr) IN
  IF ~Truthy(arrival_time_str) THEN RetNone
  ELSE IF ~IsStr(arrival_time_str) THEN Raise
  ELSE IF arrival_time_str.t \in ArrivalFormats THEN Ret(arrival_time_str.v)
  ELSE RetNone

\* --------------------------------------------- _get_hotel_checkin_datetime
DEFAULT_CHECK_IN_TIME == At(0, 15, 0, 0)

CheckInDate(hotel, reference_date) ==
  LET check_in_date_str == Get(hotel, "check_in_date", EmptyStr) IN
  IF Truthy(check_in_date_str)
  THEN IF ~IsStr(check_in_date_str) THEN Raise
       ELSE IF check_in_date_str.t = "ymd" THEN Ret(check_in_date_str.v)
       ELSE Ret(DateOf(reference_date))
  ELSE Ret(DateOf(reference_date))

CheckInTime(hotel) ==
  LET check_in_time_str == Get(hotel, "check_in_time", Hm24(15, 0)) IN
  IF ~IsStr(check_in_time_str) THEN Raise
  ELSE IF check_in_time_str.t \in {"hm12", "text_ampm"}
       THEN IF check_in_time_str.t = "hm12" THEN Ret(check_in_time_str.v)
            ELSE Ret(DEFAULT_CHECK_IN_TIME)
       ELSE IF check_in_time_str.t = "hm24" THEN Ret(check_in_time_str.v)
            ELSE Ret(DEFAULT_CHECK_IN_TIME)

get_hotel_checkin_datetime(hotel, reference_date) ==
  LET check_in_date == CheckInDate(hotel, reference_date)
      check_in_time == CheckInTime(hotel) IN
  IF check_in_date.kind = "raise" \/ check_in_time.kind = "raise" THEN Raise
  ELSE Ret(Combine(check_in_date.v, check_in_time.v))

\* ------------------------------------------------------ filter_valid_hotels
\* travel_logic.py:121  23:59 on the day the flight lands
midnight_cutoff(flight_arrival) == Combine(DateOf(flight_arrival), At(0, 23, 59, 0))

\* mutant of IsValidSameDay: the two conditions joined by "and", as the docstring has it
IsValidSameDayAnd(traveler_hotel_arrival, hotel_checkin_datetime, cutoff) ==
  /\ TimeOf(traveler_hotel_arrival) >= TimeOf(hotel_checkin_datetime)
  /\ traveler_hotel_arrival <= cutoff

\* mutant of IsValidSameDay: the check-in time must be strictly passed
IsValidSameDayStrict(traveler_hotel_arrival, hotel_checkin_datetime, cutoff) ==
  LET checkin_time_passed ==
        TimeOf(traveler_hotel_arrival) > TimeOf(hotel_checkin_datetime) IN
  checkin_time_passed \/ traveler_hotel_arrival <= cutoff

\* travel_logic.py:164-167  the traveler reaches the hotel on the check-in date
IsValidSameDay(traveler_hotel_arrival, hotel_checkin_datetime, cutoff) ==
  LET checkin_time_passed ==
        TimeOf(traveler_hotel_arrival) >= TimeOf(hotel_checkin_datetime) IN
  checkin_time_passed \/ traveler_hotel_arrival <= cutoff

\* mutant of IsValidNextDay: two days late still accepted
IsValidNextDayTwo(arrival_date, checkin_date) == arrival_date - checkin_date <= 2

\* travel_logic.py:168-172  the traveler reaches the hotel after the check-in date
IsValidNextDay(arrival_date, checkin_date) ==
  LET days_late == arrival_date - checkin_date IN
  days_late <= 1

\* travel_logic.py:147-175  the decision for one hotel whose check-in instant is known
is_valid(traveler_hotel_arrival, hotel_checkin_datetime, cutoff) ==
  LET arrival_date == DateOf(traveler_hotel_arrival)
      checkin_date == DateOf(hotel_checkin_datetime)
      same_day_arrival == arrival_date = checkin_date
      next_day_arrival == arrival_date > checkin_date IN
  IF same_day_arrival
  THEN IsValidSameDay(traveler_hotel_arrival, hotel_checkin_datetime, cutoff)
  ELSE IF next_day_arrival THEN IsValidNextDay(arrival_date, checkin_date)
  ELSE FALSE

\* travel_logic.py:130-178  one iteration of the loop: is the hotel appended
HotelKept(hotel, flight_arrival, gap_hours) ==
  LET traveler_hotel_arrival == flight_arrival + gap_hours * HOUR
      hotel_checkin_datetime == get_hotel_checkin_datetime(hotel, flight_arrival) IN
  IF hotel_checkin_datetime.kind = "none" THEN TRUE
  ELSE is_valid(traveler_hotel_arrival, hotel_checkin_datetime.v,
                midnight_cutoff(flight_arrival))

filter_valid_hotels(hotels, flight_arrival, gap_hours) ==
  IF \E i \in 1..Len(hotels) :
       get_hotel_checkin_datetime(hotels[i], flight_arrival).kind = "raise"
  THEN Raise
  ELSE Ret(SelectSeq(hotels, LAMBDA h : HotelKept(h, flight_arrival, gap_hours)))

\* -------------------------------------------------- filter_hotels_by_rating
\* travel_logic.py:227  overall_rating, then rating, then 0
OverallRating(hotel) ==
  Or(Or(Get(hotel, "overall_rating", Num(0)), Get(hotel, "rating", Num(0))), Num(0))

\* travel_logic.py:228
LocationRating(hotel) == Or(Get(hotel, "location_rating", Num(0)), Num(0))

\* a comparison of a rating with a number raises TypeError unless it is a number
RatingRaises(hotel) ==
  OverallRating(hotel).t # "num" \/ LocationRating(hotel).t # "num"

\* mutant of MeetsRating: the location threshold applied to every hotel
MeetsRatingAlwaysLocation(hotel, min_overall_rating, min_location_rating) ==
  LET overall_rating == OverallRating(hotel).v
      location_rating == LocationRating(hotel).v IN
  overall_rating >= min_overall_rating /\ location_rating >= min_location_rating

\* travel_logic.py:231-244
MeetsRating(hotel, min_overall_rating, min_location_rating) ==
  LET overall_rating == OverallRating(hotel).v
      location_rating == LocationRating(hotel).v
      meets_overall == overall_rating >= min_overall_rating
      meets_location ==
        IF location_rating > 0 THEN location_rating >= min_location_rating ELSE TRUE IN
  meets_overall /\ meets_location

filter_hotels_by_rating(hotels, min_overall_rating, min_location_rating) ==
  IF \E i \in 1..Len(hotels) : RatingRaises(hotels[i]) THEN Raise
  ELSE Ret(SelectSeq(hotels,
         LAMBDA h : MeetsRating(h, min_overall_rating, min_location_rating)))

\* mutant of QualityHotels: every hotel is used as soon as the strict filter is empty
QualityHotelsNoLadder(hotels, min_overall_rating, min_location_rating) ==
  LET strict == filter_hotels_by_rating(hotels, min_overall_rating, min_location_rating) IN
  IF strict.kind = "raise" THEN Raise
  ELSE IF strict.v # <<>> THEN strict
  ELSE Ret(hotels)

\* travel_logic.py:367-393  the degradation ladder of find_cheapest_plan
QualityHotels(hotels, min_overall_rating, min_location_rating) ==
  LET strict == filter_hotels_by_rating(hotels, min_overall_rating, min_location_rating)
      overall_only == filter_hotels_by_rating(hotels, min_overall_rating, 0)
      rated == SelectSeq(hotels,
                 LAMBDA h : OverallRating(h).v >= RELAXED_OVERALL_RATING) IN
  IF strict.kind = "raise" THEN Raise
  ELSE IF strict.v # <<>> THEN strict
  ELSE IF overall_only.v # <<>> THEN overall_only
  ELSE IF rated # <<>> THEN Ret(rated)
  ELSE Ret(hotels)

\* ------------------------------------------------------------ offer records
Flight(price, arrival_time) == [price |-> price, arrival_time |-> arrival_time]

Hotel(name, price, overall_rating, rating, location_rating, check_in_date, check_in_time) ==
  [name |-> name, price |-> price, overall_rating |-> overall_rating, rating |-> rating,
   location_rating |-> location_rating, check_in_date |-> check_in_date,
   check_in_time |-> check_in_time]

\* Day 1 stands for 2026-01-15.
FlightA == Flight(Num(500), DtSpace(1, 10, 0))
FlightB == Flight(Num(520), DtIso(2, 18, 30))
FlightC == Flight(Num(570), DtSec(1, 23, 0, 30))
\* arrival "18:30": a string in no supported format
FlightD == Flight(Num(100), Hm24(18, 30))
\* arrival 1830: not a string
FlightE == Flight(None, Num(1830))
\* no price key
FlightF == Flight(Absent, DtSpace(1, 10, 0))
FlightCandidates == {FlightA, FlightB, FlightC, FlightD, FlightE, FlightF}

HotelA == Hotel("A", Num(100), Num(40), Num(40), Num(42), Ymd(1), Hm24(15, 0))
HotelB == Hotel("B", Num(80), Absent, Num(30), Num(0), Absent, Absent)
HotelC == Hotel("C", Num(40), Num(32), Num(32), Absent, Ymd(2), Hm12(15, 0))
HotelD == Hotel("D", Num(50), Num(20), Num(20), Num(35), Absent, Hm24(21, 0))
\* neither a check-in date nor a check-in time that parses
HotelF == Hotel("F", Absent, Num(45), Num(45), Num(35), Text, TextAmPm)
\* check_in_time null
HotelG == Hotel("G", Num(90), Num(40), Num(40), Num(41), Absent, None)
\* price "n/a"
HotelH == Hotel("H", Text, Num(40), Num(40), Num(41), Absent, Hm24(15, 0))
\* overall_rating "good"
HotelI == Hotel("I", Num(70), Text, Absent, Num(41), Absent, Hm24(15, 0))
\* location_rating null, check-in on day 2 from 11:00
HotelJ == Hotel("J", Num(80), Num(45), Num(45), None, Ymd(2), Hm24(11, 0))
HotelCandidates ==
  {HotelA, HotelB, HotelC, HotelD, HotelF, HotelG, HotelH, HotelI, HotelJ}

\* TRAVEL_HOTEL_CHECKIN_GAP_HOURS is read from the environment (config.py:54)
GapValues == {0, 2, 3, 25}

\* ------------------------------------------------------------------- state
VARIABLES
  flights,           \* find_cheapest_plan's argument
  hotels,            \* find_cheapest_plan's argument
  gap_hours,         \* the configured gap
  pc,                \* where the call is
  quality_hotels,    \* travel_logic.py:369-393
  idx,               \* position of the loop over flights (1-based)
  arrival_datetime,  \* outcome of extract_arrival_datetime for the last flight
  valid_hotels,      \* outcome of filter_valid_hotels for the last flight
  best_plan,
  best_total_price,
  result,            \* what find_cheapest_plan returned
  response,          \* the cost breakdown _format_travel_plan shows
  previous,          \* what the call before this one returned, for the same arguments
  request,           \* the TravelSearchArgs of the request (models.py:48-91)
  env,               \* shared.py _factory and tools.py _transport
  node,              \* where _travel_search_node is
  wire,              \* the A2A exchange under way, or the last one made
  queries,           \* the agents asked so far, in order
  provider,          \* the provider searches the agents made, in order
  activities,        \* graph.py:457 the activities of the full trip
  reply,             \* the message _travel_search_node returns
  raw,               \* the provider's response to search_flights / search_hotels
  offers,            \* what search_flights / search_hotels returned
  shared,            \* the module globals: shared.py _factory, tools.py _transport
  calls,             \* where each request's _send_a2a_message is
  clients,           \* the A2A clients created so far
  graph              \* the run of the supervisor graph: node and messages

\* the state of the supervisor's search node
svars == <<request, env, node, wire, queries, provider, activities, reply>>

\* the state of the parts outside find_cheapest_plan and the search node
xvars == <<raw, offers, shared, calls, clients, graph>>

vars == <<flights, hotels, gap_hours, pc, quality_hotels, idx, arrival_datetime,
          valid_hotels, best_plan, best_total_price, result, response, previous, svars,
          xvars>>

\* no request is being handled by the supervisor
NoRequest ==
  /\ request = Unset
  /\ env = Unset
  /\ node = "idle"
  /\ wire = Unset
  /\ queries = <<>>
  /\ provider = <<>>
  /\ activities = <<>>
  /\ reply = Unset

\* no provider search is being made
NoSearch ==
  /\ raw = Unset
  /\ offers = Unset

\* no request is sending A2A messages and no graph is run
NoTraffic ==
  /\ shared = Unset
  /\ calls = Unset
  /\ clients = {}
  /\ graph = Unset

\* ------------------------------------------------------ find_cheapest_plan
\* travel_logic.py:415-416  record.get("price") or 0
PriceOf(record) == Or(Get(record, "price", None), Num(0))

\* mutant of Cheaper: the dearest pair wins
CheaperDearest(total_price, best) == best = Inf \/ (best.t = "num" /\ total_price > best.v)

\* mutant of Cheaper: a pair of equal cost replaces the best one
CheaperOrEqual(total_price, best) == best = Inf \/ (best.t = "num" /\ total_price <= best.v)

\* travel_logic.py:419  total_price < best_total_price
Cheaper(total_price, best) == best = Inf \/ (best.t = "num" /\ total_price < best.v)

\* mutant of strftime: the seconds are kept
strftimeSeconds(dt) == Val("dt_space", dt)

\* travel_logic.py:426  arrival_datetime.strftime("%Y-%m-%d %H:%M")
strftime(dt) == Val("dt_space", (dt \div 60) * 60)

\* travel_logic.py:421-427
Plan(flight, hotel, total_price, gap, arrival) ==
  [flight |-> flight, hotel |-> hotel, total_price |-> total_price, gap_hours |-> gap,
   arrival_time |-> strftime(arrival)]

\* travel_logic.py:414-431  the loop over the valid hotels of one flight, from the
\* k-th on; best is [raised, plan, price]
RECURSIVE ScanHotels(_, _, _, _, _, _)
ScanHotels(flight, arrival, gap, valid, k, best) ==
  IF k > Len(valid) THEN best
  ELSE LET flight_price == PriceOf(flight)
           hotel_price == PriceOf(valid[k]) IN
       IF flight_price.t # "num" \/ hotel_price.t # "num"
       THEN [best EXCEPT !.raised = TRUE]
       ELSE LET total_price == flight_price.v + hotel_price.v IN
            IF Cheaper(total_price, best.price)
            THEN ScanHotels(flight, arrival, gap, valid, k + 1,
                   [raised |-> FALSE,
                    plan |-> Ret(Plan(flight, valid[k], total_price, gap, arrival)),
                    price |-> Num(total_price)])
            ELSE ScanHotels(flight, arrival, gap, valid, k + 1, best)

Init ==
  /\ flights \in Lists(FlightCandidates, MaxFlights)
  /\ hotels \in Lists(HotelCandidates, MaxHotels)
  /\ gap_hours \in GapValues
  /\ pc = "call"
  /\ quality_hotels = Unset
  /\ idx = 0
  /\ arrival_datetime = Unset
  /\ valid_hotels = Unset
  /\ best_plan = RetNone
  /\ best_total_price = Inf
  /\ result = Unset
  /\ response = Unset
  /\ previous = Unset
  /\ NoRequest
  /\ NoSearch
  /\ NoTraffic

\* travel_logic.py:359-365
CheckInputs ==
  /\ pc = "call"
  /\ IF flights = <<>> \/ hotels = <<>>
     THEN pc' = "done" /\ result' = RetNone
     ELSE pc' = "rate" /\ result' = result
  /\ UNCHANGED <<flights, hotels, gap_hours, quality_hotels, idx, arrival_datetime,
                 valid_hotels, best_plan, best_total_price, response>>
  /\ UNCHANGED <<previous, svars, xvars>>

\* mutant of Untouched: the filter removes the other hotels from the list it
\* is given
FilteredInPlace(hotel_list, kept) == kept

\* travel_logic.py:113-192, 229-247  what a filter leaves in the list it is
\* given: it appends the hotels it keeps to a list of its own
Untouched(hotel_list, kept) == hotel_list

\* travel_logic.py:367-396
RateHotels ==
  /\ pc = "rate"
  /\ quality_hotels' = QualityHotels(hotels, MIN_OVERALL_RATING, MIN_LOCATION_RATING)
  /\ hotels' = IF quality_hotels'.kind = "value"
               THEN Untouched(hotels, quality_hotels'.v)
               ELSE hotels
  /\ IF quality_hotels'.kind = "raise"
     THEN pc' = "raised" /\ result' = Raise /\ idx' = idx
     ELSE pc' = "loop" /\ result' = result /\ idx' = 1
  /\ UNCHANGED <<flights, gap_hours, arrival_datetime, valid_hotels, best_plan,
                 best_total_price, response>>
  /\ UNCHANGED <<previous, svars, xvars>>

\* travel_logic.py:398-431  one iteration of the loop over the flights
NextFlight ==
  /\ pc = "loop"
  /\ idx <= Len(flights)
  /\ LET flight == flights[idx]
         arrival == extract_arrival_datetime(flight)
         valid == IF arrival.kind = "value"
                  THEN filter_valid_hotels(quality_hotels.v, arrival.v, gap_hours)
                  ELSE Unset
         best == IF valid.kind = "value"
                 THEN ScanHotels(flight, arrival.v, gap_hours, valid.v, 1,
                        [raised |-> FALSE, plan |-> best_plan, price |-> best_total_price])
                 ELSE [raised |-> FALSE, plan |-> best_plan, price |-> best_total_price]
         raised == arrival.kind = "raise" \/ valid.kind = "raise" \/ best.raised IN
     /\ arrival_datetime' = arrival
     /\ valid_hotels' = valid
     /\ quality_hotels' = IF valid.kind = "value"
                          THEN Ret(Untouched(quality_hotels.v, valid.v))
                          ELSE quality_hotels
     /\ best_plan' = best.plan
     /\ best_total_price' = best.price
     /\ IF raised
        THEN pc' = "raised" /\ result' = Raise /\ idx' = idx
        ELSE pc' = "loop" /\ result' = result /\ idx' = idx + 1
  /\ UNCHANGED <<flights, hotels, gap_hours, response>>
  /\ UNCHANGED <<previous, svars, xvars>>

\* travel_logic.py:433-440  the log line reads best_plan['flight']['price'] and
\* hotel['price'] by subscript: KeyError when the key is not in the record
LogRaises(plan) ==
  plan.kind = "value" /\ (plan.v.flight.price = Absent \/ plan.v.hotel.price = Absent)

\* travel_logic.py:433-444
ReturnPlan ==
  /\ pc = "loop"
  /\ idx > Len(flights)
  /\ IF LogRaises(best_plan)
     THEN pc' = "raised" /\ result' = Raise
     ELSE pc' = "done" /\ result' = best_plan
  /\ UNCHANGED <<flights, hotels, gap_hours, quality_hotels, idx, arrival_datetime,
                 valid_hotels, best_plan, best_total_price, response>>
  /\ UNCHANGED <<previous, svars, xvars>>

\* travel_logic.py:398-431  the loop over the flights from the i-th on, as a function
RECURSIVE ScanFlights(_, _, _, _, _)
ScanFlights(fl, quality, gap, i, best) ==
  IF i > Len(fl) THEN best
  ELSE LET arrival == extract_arrival_datetime(fl[i])
           valid == IF arrival.kind = "value"
                    THEN filter_valid_hotels(quality, arrival.v, gap)
                    ELSE Unset
           b == IF valid.kind = "value"
                THEN ScanHotels(fl[i], arrival.v, gap, valid.v, 1, best)
                ELSE best IN
       IF arrival.kind = "raise" \/ valid.kind = "raise" \/ b.raised
       THEN [b EXCEPT !.raised = TRUE]
       ELSE ScanFlights(fl, quality, gap, i + 1, b)

\* travel_logic.py:305-444  the outcome of one call as a function of its arguments
FindCheapestPlan(fl, ho, gap) ==
  IF fl = <<>> \/ ho = <<>> THEN RetNone
  ELSE LET quality == QualityHotels(ho, MIN_OVERALL_RATING, MIN_LOCATION_RATING) IN
       IF quality.kind = "raise" THEN Raise
       ELSE LET best == ScanFlights(fl, quality.v, gap, 1,
                          [raised |-> FALSE, plan |-> RetNone, price |-> Inf]) IN
            IF best.raised \/ LogRaises(best.plan) THEN Raise ELSE best.plan

\* ---------------------------------------------------- _format_travel_plan
\* mutant of Nights: the difference of the dates is not raised to 1
NightsUnfloored(params) ==
  IF params.start_date.t # "ymd" THEN 1
  ELSE IF params.is_one_way THEN 1
  ELSE IF params.end_date.t # "ymd" THEN 1
  ELSE params.end_date.v - params.start_date.v

\* graph.py:1087-1096  the number of nights of the stay
Nights(params) ==
  IF params.start_date.t # "ymd" THEN 1
  ELSE IF params.is_one_way THEN 1
  ELSE IF params.end_date.t # "ymd" THEN 1
  ELSE LET days == params.end_date.v - params.start_date.v IN
       IF days > 1 THEN days ELSE 1

TripParams ==
  {[is_one_way |-> o, start_date |-> Ymd(1), end_date |-> e] :
     o \in BOOLEAN, e \in {None, Text} \cup {Ymd(1 + k) : k \in 0..MaxNights}}

\* graph.py:1084-1106, called with the plan find_cheapest_plan returned (graph.py:447-468)
FormatTravelPlan ==
  /\ pc = "done"
  /\ result.kind = "value"
  /\ \E params \in TripParams :
       LET flight == result.v.flight
           hotel == result.v.hotel
           nights == Nights(params)
           flight_price == PriceOf(flight).v
           hotel_price_per_night == PriceOf(hotel).v
           hotel_total_price == hotel_price_per_night * nights
           total_price == flight_price + hotel_total_price IN
       response' = Ret([nights |-> nights, flight_price |-> flight_price,
                        hotel_total_price |-> hotel_total_price,
                        total_price |-> total_price])
  /\ pc' = "formatted"
  /\ UNCHANGED <<flights, hotels, gap_hours, quality_hotels, idx, arrival_datetime,
                 valid_hotels, best_plan, best_total_price, result>>
  /\ UNCHANGED <<previous, svars, xvars>>

Next == CheckInputs \/ RateHotels \/ NextFlight \/ ReturnPlan \/ FormatTravelPlan

Spec == Init /\ [][Next]_vars

\* ------------------------------------------- the same call made a second time
\* offers of every kind: parseable and not, priced and not, on each rung of the ladder
RepeatFlights == {FlightA, FlightB, FlightD, FlightF}
RepeatHotels == {HotelA, HotelB, HotelF, HotelJ}

RepeatInit ==
  /\ flights \in Lists(RepeatFlights, MaxFlights)
  /\ hotels \in Lists(RepeatHotels, MaxHotels)
  /\ gap_hours \in GapValues
  /\ pc = "call"
  /\ quality_hotels = Unset
  /\ idx = 0
  /\ arrival_datetime = Unset
  /\ valid_hotels = Unset
  /\ best_plan = RetNone
  /\ best_total_price = Inf
  /\ result = Unset
  /\ response = Unset
  /\ previous = Unset
  /\ NoRequest
  /\ NoSearch
  /\ NoTraffic

\* mutant of BestAtEntry: the best price outlives the call, as a module global would
BestKeptAcrossCalls(kept) == kept

\* travel_logic.py:396  best_total_price is a local, set at each call
BestAtEntry(kept) == Inf

\* travel_logic.py:305-396  find_cheapest_plan is called again with the same
\* lists and the same gap: the lists are the objects the first call was given
\* and every local starts afresh
CallAgain ==
  /\ pc \in {"done", "raised"}
  /\ previous.kind = "unset"
  /\ previous' = result
  /\ pc' = "call"
  /\ quality_hotels' = Unset
  /\ idx' = 0
  /\ arrival_datetime' = Unset
  /\ valid_hotels' = Unset
  /\ best_plan' = RetNone
  /\ best_total_price' = BestAtEntry(best_total_price)
  /\ result' = Unset
  /\ UNCHANGED <<flights, hotels, gap_hours, response, svars, xvars>>

RepeatNext == Next \/ CallAgain

RepeatSpec == RepeatInit /\ [][RepeatNext]_vars

\* ------------------------------------------- TravelGraph._travel_search_node
\* graph.py:829  datetime.now().date(), as a day number
Today == 3

\* the dates a request may carry: none, a text that is no date, and YYYY-MM-DD
\* dates from yesterday onwards
SearchDates == {None, Text} \cup {Ymd(Today + k) : k \in -1..MaxNights}

SearchTypes == {"full_trip", "flight_only", "hotel_only", "activity_only"}

\* a text of several words separated by spaces, such as "San Diego, CA"
Phrase == Val("phrase", 3)
\* the first word of Phrase
FirstWord == Val("first_word", 0)
\* Phrase with an underscore for every space
Underscored == Val("underscored", 3)

\* models.py:48-91  the TravelSearchArgs the node works with (graph.py:245-253);
\* location and destination_city are None, so that the place of a hotel or
\* activity search is the destination (graph.py:283, 314, 440)
SearchRequests ==
  {[search_type |-> t, origin |-> o, destination |-> d,
    start_date |-> s, end_date |-> e, is_one_way |-> w] :
     t \in SearchTypes, o \in {None, Text}, d \in {None, Text, Phrase},
     s \in SearchDates, e \in SearchDates, w \in BOOLEAN}

\* graph.py:834  datetime.strptime(text.strip()[:10], "%Y-%m-%d").date()
ParseDate(x) ==
  IF x.t = "ymd" THEN Ret(x.v)
  ELSE IF x.t \in ArrivalFormats THEN Ret(DateOf(x.v))
  ELSE Raise

DatePassed == "Date Already Passed"
InvalidRange == "Invalid Date Range"
NoError == ""

\* mutant of validate_dates: the end date is not compared with the start date
validate_dates_no_range(params) ==
  LET start_date == ParseDate(params.start_date)
      end_date == ParseDate(params.end_date) IN
  IF Truthy(params.start_date) /\ start_date.kind = "value" /\ start_date.v < Today
  THEN DatePassed
  ELSE IF Truthy(params.end_date) /\ end_date.kind = "value" /\ end_date.v < Today
  THEN DatePassed
  ELSE NoError

\* graph.py:819-871  _validate_dates; a date that does not parse is passed over
validate_dates(params) ==
  LET start_date == ParseDate(params.start_date)
      end_date == ParseDate(params.end_date) IN
  IF Truthy(params.start_date) /\ start_date.kind = "value" /\ start_date.v < Today
  THEN DatePassed
  ELSE IF Truthy(params.end_date) /\ end_date.kind = "value"
  THEN IF end_date.v < Today THEN DatePassed
       ELSE IF Truthy(params.start_date) /\ start_date.kind = "value"
               /\ end_date.v < start_date.v
       THEN InvalidRange
       ELSE NoError
  ELSE NoError

\* graph.py:413-421  the check-out date of the hotel query of a full trip
hotel_checkout_date(params) ==
  IF params.is_one_way \/ ~Truthy(params.end_date)
  THEN LET start_dt == ParseDate(params.start_date) IN
       IF start_dt.kind = "value" THEN Ymd(start_dt.v + 1) ELSE params.start_date
  ELSE params.end_date

\* ------------------------------------------------------------ A2A messages
\* one "key:value" word of a message; f"{value}" of None is the text 'None'
Word(key, value) == [key |-> key, value |-> IF value = None THEN Text ELSE value]

\* the value of type:oneway and of type:things_to_do
OneWay == Val("oneway", 0)
ThingsToDo == Val("things_to_do", 0)

\* a word of a message without ":"
Bare == [key |-> "", value |-> Text]

\* the words message.split() makes of f"{key}:{value}" (agent.py _parse_request):
\* the words of a value after its first stand alone
Split(key, value) ==
  IF value.t = "phrase"
  THEN <<Word(key, FirstWord)>> \o [i \in 1..(value.v - 1) |-> Bare]
  ELSE <<Word(key, value)>>

\* tools.py:362  location.replace(" ", "_")
Underscore(value) == IF value.t = "phrase" THEN Underscored ELSE value

\* activity/agent.py:115  value.replace("_", " ")
Spaced(value) == IF value.t = "underscored" THEN Phrase ELSE value

\* tools.py:168-171
flight_message(origin, destination, outbound_date, return_date, is_one_way) ==
  IF is_one_way
  THEN Split("origin", origin) \o Split("destination", destination)
         \o Split("outbound", outbound_date) \o Split("type", OneWay)
  ELSE Split("origin", origin) \o Split("destination", destination)
         \o Split("outbound", outbound_date) \o Split("return", return_date)

\* tools.py:201
hotel_message(location, check_in_date, check_out_date) ==
  Split("location", location) \o Split("check_in", check_in_date)
    \o Split("check_out", check_out_date)

\* tools.py:362-363
activity_message(location, activity_type) ==
  Split("location", Underscore(location)) \o Split("type", activity_type)

\* the text of a reply: a JSON object with its status and one list, another
\* JSON value (null, a list, a number, a string), or a text that is not JSON
JsonObject(status, key, items) ==
  [form |-> "object", status |-> status, key |-> key, items |-> items]
JsonOther == [form |-> "json", status |-> "", key |-> "", items |-> <<>>]
PlainText(what) == [form |-> "text", status |-> what, key |-> "", items |-> <<>>]

\* ------------------------------------------------------------- the agents
\* agent.py _parse_request: the value of the last word whose key is one of
\* keys; params.get() of a key never set is None
ParamGet(message, keys) ==
  LET hits == {i \in 1..Len(message) : message[i].key \in keys} IN
  IF hits = {} THEN None
  ELSE message[CHOOSE i \in hits : \A j \in hits : j <= i].value

\* flight/agent.py:99-126
flight_parse_request(message) ==
  [origin |-> ParamGet(message, {"origin", "from"}),
   destination |-> ParamGet(message, {"destination", "to", "dest"}),
   outbound_date |-> ParamGet(message, {"outbound", "outbound_date", "depart", "start"}),
   return_date |-> ParamGet(message, {"return", "return_date", "end"})]

\* hotel/agent.py:96-120
hotel_parse_request(message) ==
  [location |-> ParamGet(message, {"location", "city", "destination"}),
   check_in |-> ParamGet(message, {"check_in", "checkin", "start"}),
   check_out |-> ParamGet(message, {"check_out", "checkout", "end"})]

\* activity/agent.py:96-119
activity_parse_request(message) ==
  [location |-> Spaced(ParamGet(message, {"location", "city", "destination"})),
   activity_type |-> ParamGet(message, {"type", "activity_type", "category"})]

\* agent.py parses the message of its own kind
ParseRequest(agent, message) ==
  CASE agent = "flight" -> flight_parse_request(message)
    [] agent = "hotel" -> hotel_parse_request(message)
    [] OTHER -> activity_parse_request(message)

\* flight/agent.py:72-73, hotel/agent.py:71, activity/agent.py:72  the agent
\* goes on to its provider only with every required parameter
HasRequired(agent, params) ==
  CASE agent = "flight" -> /\ Truthy(params.origin) /\ Truthy(params.destination)
                           /\ Truthy(params.outbound_date) /\ Truthy(params.return_date)
    [] agent = "hotel" -> /\ Truthy(params.location) /\ Truthy(params.check_in)
                          /\ Truthy(params.check_out)
    [] OTHER -> Truthy(params.location)

\* the key of the list in the agent's JSON reply (agent.py:138, 131, 130)
ListKey(agent) ==
  CASE agent = "flight" -> "flights" [] agent = "hotel" -> "hotels" [] OTHER -> "activities"

\* flights[:10]
Top10(s) == SubSeq(s, 1, IF Len(s) < 10 THEN Len(s) ELSE 10)

\* flight/agent.py:67-97, hotel/agent.py:67-94, activity/agent.py:68-94  the
\* text the agent answers with; found is the outcome of its provider search
search_node(agent, message, found) ==
  IF ~HasRequired(agent, ParseRequest(agent, message)) THEN PlainText("missing")
  ELSE IF found.kind = "raise" THEN PlainText("error")
  ELSE IF found.v = <<>> THEN PlainText("not_found")
  ELSE JsonObject("success", ListKey(agent), Top10(found.v))

Activity(name) == [name |-> name]

\* the provider search raises (serpapi_tools.py)
SearchRaises == [kind |-> "raise", v |-> <<>>]

\* what the provider search of an agent comes back with
Found(agent) ==
  CASE agent = "flight" ->
         {Ret(<<FlightA>>), Ret(<<FlightB, FlightA>>), Ret(<<>>), SearchRaises}
    [] agent = "hotel" ->
         {Ret(<<HotelA>>), Ret(<<HotelJ, HotelA>>), Ret(<<HotelJ>>), Ret(<<HotelH>>),
          Ret(<<>>), SearchRaises}
    [] OTHER -> {Ret(<<Activity("museum")>>), Ret(<<>>), SearchRaises}

\* ------------------------------------------------------- _send_a2a_message
\* what client.send_message comes back with (tools.py:109-124), or NotSent
\* when the message never left
Response(type, text) == [type |-> type, text |-> text]
Result(text) == Response("result", text)
ResultNoText == Response("result_no_text", PlainText(""))
ErrorResponse == Response("error", PlainText(""))
UnknownResponse == Response("unknown", PlainText(""))
SendRaises == Response("raises", PlainText(""))
NotSent == Response("not_sent", PlainText(""))

\* the replies no agent of this repository writes
ForeignTexts ==
  {PlainText("garbage"), JsonOther} \cup
  {JsonObject(status, key, <<>>) :
     status \in {"error", "success"}, key \in {""}}

\* an exchange that fails after the message was sent
FailedResponses ==
  {SendRaises, ErrorResponse, ResultNoText, UnknownResponse}
    \cup {Result(text) : text \in ForeignTexts}

\* tools.py:65-130  the text returned, or A2AAgentError raised
send_a2a_message(answer) ==
  IF env.factory = "none" THEN Raise
  ELSE IF env.transport = "none" THEN Raise
  ELSE IF answer.type = "result" THEN Ret(answer.text)
  ELSE Raise

\* tools.py:173-178, 203-208, 365-370  A2AAgentError becomes an error reply
search_internal(answer) ==
  LET sent == send_a2a_message(answer) IN
  IF sent.kind = "raise" THEN JsonObject("error", "", <<>>) ELSE sent.v

\* tools.py:303-312, 331-340, 390-399  json.loads and result.get: a text that
\* is not JSON gives [], a JSON value that is no object has no get()
get_via_a2a(agent, answer) ==
  LET result_json == search_internal(answer) IN
  IF result_json.form = "text" THEN Ret(<<>>)
  ELSE IF result_json.form = "json" THEN Raise
  ELSE IF result_json.status = "success"
  THEN Ret(IF result_json.key = ListKey(agent) THEN result_json.items ELSE <<>>)
  ELSE Ret(<<>>)

\* the exchange a call of get_*_via_a2a starts: with no factory or no
\* transport the message is not sent (tools.py:79-85)
Exchange(agent, message) ==
  IF env.factory = "none" \/ env.transport = "none"
  THEN [kind |-> "replied",
        v |-> [agent |-> agent, message |-> message, response |-> NotSent, by |-> "nobody"]]
  ELSE [kind |-> "sent", v |-> [agent |-> agent, message |-> message]]

\* the message the node returns
Message(kind, v) == [kind |-> kind, v |-> v]

\* -------------------------------------------------------------- the node
SearchInit ==
  /\ request \in SearchRequests
  /\ env \in {[factory |-> f, transport |-> t] :
                f \in {"ok", "none"}, t \in {"ok", "none"}}
  /\ env.factory = "none" => env.transport = "none"
  /\ gap_hours \in GapValues
  /\ node = "start"
  /\ wire = Unset
  /\ queries = <<>>
  /\ provider = <<>>
  /\ activities = <<>>
  /\ reply = Unset
  /\ flights = <<>>
  /\ hotels = <<>>
  /\ pc = "idle"
  /\ quality_hotels = Unset
  /\ idx = 0
  /\ arrival_datetime = Unset
  /\ valid_hotels = Unset
  /\ best_plan = RetNone
  /\ best_total_price = Inf
  /\ result = Unset
  /\ response = Unset
  /\ previous = Unset
  /\ NoSearch
  /\ NoTraffic

\* the variables of the stepwise run of find_cheapest_plan, unused by the node
cvars == <<pc, quality_hotels, idx, arrival_datetime, valid_hotels, best_plan,
           best_total_price, previous>>

\* the node returns message; wire keeps the last exchange
Return(message) ==
  /\ reply' = message
  /\ node' = "done"
  /\ wire' = wire

\* the node calls get_*_via_a2a
Ask(agent, message) ==
  /\ wire' = Exchange(agent, message)
  /\ queries' = Append(queries, agent)
  /\ node' = agent
  /\ reply' = reply

\* the fields of params that are not given, among fields
NotGiven(params, fields) == {field \in fields : ~Truthy(params[field])}

\* mutant of Missing: the hotel handler does not look at the dates
MissingHotelDatesUnchecked(search_type, params) ==
  CASE search_type = "activity_only" -> NotGiven(params, {"destination"})
    [] search_type = "hotel_only" -> NotGiven(params, {"destination"})
    [] OTHER -> NotGiven(params, {"origin", "destination", "start_date"})

\* graph.py:283-285, 314-316, 326, 355, 364, 401  the fields whose absence makes
\* the handler ask back instead of searching; the place of a hotel or activity
\* search is params.destination here
Missing(search_type, params) ==
  CASE search_type = "activity_only" -> NotGiven(params, {"destination"})
    [] search_type = "hotel_only" ->
         NotGiven(params, {"destination", "start_date", "end_date"})
    [] OTHER -> NotGiven(params, {"origin", "destination", "start_date"})

\* graph.py:286-290, 317-331, 356-370, 402-411  the fields the clarification
\* message asks for
Clarification(search_type, params) ==
  CASE search_type = "activity_only" -> {"destination"}
    [] search_type = "hotel_only" ->
         IF ~Truthy(params.destination) THEN {"destination", "start_date", "end_date"}
         ELSE NotGiven(params, {"start_date", "end_date"})
    [] search_type = "flight_only" ->
         IF ~Truthy(params.origin) \/ ~Truthy(params.destination)
         THEN NotGiven(params, {"origin", "destination", "start_date"})
         ELSE {"start_date"}
    [] OTHER -> NotGiven(params, {"origin", "destination", "start_date"})
                  \cup (IF params.is_one_way THEN {} ELSE NotGiven(params, {"end_date"}))

\* graph.py:255-274 and the handlers up to their first query
\* (graph.py:276-295, 307-336, 348-382, 394-434)
TravelSearchNode ==
  /\ node = "start"
  /\ LET params == request
         search_type == params.search_type
         date_error == validate_dates(params)
         location == params.destination IN
     IF search_type # "activity_only" /\ date_error # NoError
     THEN Return(Message("validation", date_error)) /\ queries' = queries
     ELSE IF Missing(search_type, params) # {}
     THEN /\ Return(Message("clarification", Clarification(search_type, params)))
          /\ queries' = queries
     ELSE IF search_type = "activity_only"
     THEN Ask("activity", activity_message(location, ThingsToDo))
     ELSE IF search_type = "hotel_only"
     THEN Ask("hotel", hotel_message(location, params.start_date, params.end_date))
     ELSE Ask("flight",
              flight_message(params.origin, params.destination, params.start_date,
                             IF params.is_one_way THEN None ELSE params.end_date,
                             params.is_one_way))
  /\ UNCHANGED <<request, env, gap_hours, flights, hotels, result, response,
                 provider, activities, cvars, xvars>>

\* agent_executor.py:70-83 and agent.py: the agent the message was sent to
\* handles it and answers with a text
AgentReplies ==
  /\ wire.kind = "sent"
  /\ LET agent == wire.v.agent
         message == wire.v.message
         params == ParseRequest(agent, message) IN
     \E found \in Found(agent) :
       /\ wire' = [kind |-> "replied",
                   v |-> [agent |-> agent, message |-> message, by |-> "agent",
                          response |-> Result(search_node(agent, message, found))]]
       /\ provider' = IF HasRequired(agent, params)
                      THEN Append(provider, [agent |-> agent, params |-> params,
                                             found |-> found])
                      ELSE provider
  /\ UNCHANGED <<request, env, gap_hours, flights, hotels, result, response,
                 node, queries, activities, reply, cvars, xvars>>

\* tools.py:87-130  the exchange fails: the send raises, or what comes back is
\* an error, has no text, is of no known type, or is no reply of the agent
ExchangeFails ==
  /\ wire.kind = "sent"
  /\ \E failed \in FailedResponses :
       wire' = [kind |-> "replied",
                v |-> [agent |-> wire.v.agent, message |-> wire.v.message,
                       by |-> "nobody", response |-> failed]]
  /\ UNCHANGED <<request, env, gap_hours, flights, hotels, result, response,
                 node, queries, provider, activities, reply, cvars, xvars>>

\* mutant of ReceiveFlights: a flight-only search goes on to the hotel query
ReceiveFlightsThenHotels ==
  /\ node = "flight"
  /\ wire.kind = "replied"
  /\ LET got == get_via_a2a("flight", wire.v.response) IN
     IF got.kind = "raise"
     THEN Return(Message("error", 0)) /\ UNCHANGED <<flights, queries>>
     ELSE IF got.v = <<>>
     THEN Return(Message("no_flights", 0)) /\ UNCHANGED <<flights, queries>>
     ELSE /\ flights' = got.v
          /\ Ask("hotel", hotel_message(request.destination, request.start_date,
                                        hotel_checkout_date(request)))
  /\ UNCHANGED <<request, env, gap_hours, hotels, result, response, provider,
                 activities, cvars, xvars>>

\* graph.py:375-392 (flights only) and graph.py:426-441 (full trip)
ReceiveFlights ==
  /\ node = "flight"
  /\ wire.kind = "replied"
  /\ LET got == get_via_a2a("flight", wire.v.response) IN
     IF got.kind = "raise"
     THEN Return(Message("error", 0)) /\ UNCHANGED <<flights, queries>>
     ELSE IF got.v = <<>>
     THEN Return(Message("no_flights", 0)) /\ UNCHANGED <<flights, queries>>
     ELSE /\ flights' = got.v
          /\ IF request.search_type = "flight_only"
             THEN Return(Message("flights", got.v)) /\ queries' = queries
             ELSE Ask("hotel", hotel_message(request.destination, request.start_date,
                                             hotel_checkout_date(request)))
  /\ UNCHANGED <<request, env, gap_hours, hotels, result, response, provider,
                 activities, cvars, xvars>>

\* graph.py:915-921  the number of nights of a hotel-only listing
hotel_nights(params) ==
  LET start_dt == ParseDate(params.start_date)
      end_dt == ParseDate(params.end_date) IN
  IF ~IsStr(params.start_date) \/ start_dt.kind # "value" THEN 1
  ELSE IF ~IsStr(params.end_date) \/ end_dt.kind # "value" THEN 1
  ELSE IF end_dt.v - start_dt.v > 1 THEN end_dt.v - start_dt.v ELSE 1

\* graph.py:908-970  the nights and the total prices of the hotels listed
\* (the listing is sorted by rating; the order is left out)
format_hotels_only(hotel_list, params) ==
  [nights |-> hotel_nights(params),
   total_prices |-> {PriceOf(hotel_list[k]).v * hotel_nights(params) :
                       k \in 1..Len(hotel_list)}]

\* graph.py:335-346 (hotels only) and graph.py:441-459 (full trip): with
\* flights and hotels the node calls find_cheapest_plan(flights, hotels)
ReceiveHotels ==
  /\ node = "hotel"
  /\ wire.kind = "replied"
  /\ LET got == get_via_a2a("hotel", wire.v.response) IN
     IF got.kind = "raise"
     THEN Return(Message("error", 0)) /\ UNCHANGED <<hotels, queries, result, response>>
     ELSE IF got.v = <<>>
     THEN Return(Message("no_hotels", 0)) /\ UNCHANGED <<hotels, queries, result, response>>
     ELSE /\ hotels' = got.v
          /\ IF request.search_type = "hotel_only"
             THEN /\ response' = Ret(format_hotels_only(got.v, request))
                  /\ Return(Message("hotels", got.v))
                  /\ UNCHANGED <<queries, result>>
             ELSE LET plan == FindCheapestPlan(flights, got.v, gap_hours) IN
                  /\ result' = plan
                  /\ response' = response
                  /\ IF plan.kind = "raise"
                     THEN Return(Message("error", 0)) /\ queries' = queries
                     ELSE IF plan.kind = "none"
                     THEN Return(Message("no_combination", 0)) /\ queries' = queries
                     ELSE Ask("activity", activity_message(request.destination, ThingsToDo))
  /\ UNCHANGED <<request, env, gap_hours, flights, provider,
                 activities, cvars, xvars>>

\* mutant of TryActivities: the activity query is made outside any try
TryActivitiesUnguarded(got) == got

\* graph.py:457-461  activities = [] unless the query returns a list
TryActivities(got) == IF got.kind = "raise" THEN Ret(<<>>) ELSE got

\* graph.py:1084-1106  the cost breakdown of the response
format_travel_plan(plan, params) ==
  LET nights == Nights(params)
      flight_price == PriceOf(plan.flight).v
      hotel_total_price == PriceOf(plan.hotel).v * nights IN
  [nights |-> nights, flight_price |-> flight_price,
   hotel_total_price |-> hotel_total_price,
   total_price |-> flight_price + hotel_total_price]

\* graph.py:294-305 (activities only) and graph.py:456-469 (full trip)
ReceiveActivities ==
  /\ node = "activity"
  /\ wire.kind = "replied"
  /\ LET got == get_via_a2a("activity", wire.v.response) IN
     IF request.search_type = "activity_only"
     THEN /\ IF got.kind = "raise" THEN Return(Message("error", 0))
             ELSE IF got.v = <<>> THEN Return(Message("no_activities", 0))
             ELSE Return(Message("activities", got.v))
          /\ UNCHANGED <<activities, response>>
     ELSE LET tried == TryActivities(got) IN
          IF tried.kind = "raise"
          THEN Return(Message("error", 0)) /\ UNCHANGED <<activities, response>>
          ELSE /\ activities' = tried.v
               /\ response' = Ret(format_travel_plan(result.v, request))
               /\ Return(Message("plan", [flight |-> result.v.flight,
                                          hotel |-> result.v.hotel,
                                          activities |-> tried.v]))
  /\ UNCHANGED <<request, env, gap_hours, flights, hotels, result, queries,
                 provider, cvars, xvars>>

SearchNext ==
  \/ TravelSearchNode
  \/ AgentReplies
  \/ ExchangeFails
  \/ ReceiveFlights
  \/ ReceiveHotels
  \/ ReceiveActivities

SearchSpec == SearchInit /\ [][SearchNext]_vars

\* ------------------------------------------------ serpapi_tools.py: flights
MaxLegs == 3

\* an airline name; "Unknown" is Airline(0)
Airline(n) == Val("text", n)

\* the value of leg["departure_airport"] or leg["arrival_airport"]: the key is
\* absent, the value is null, the object has no "time", or the time it has
NoTime == Val("no_time", 0)

\* airport.get("time", "") for the object leg.get(key, {}) (serpapi_tools.py:321-326)
TimeOf_(airport) ==
  IF airport = None THEN Raise
  ELSE IF airport = Absent \/ airport = NoTime THEN Ret(EmptyStr)
  ELSE Ret(airport)

\* one leg of a flight group; a leg that is no JSON object has form "other"
Leg(form, departure_airport, arrival_airport, airline) ==
  [form |-> form, departure_airport |-> departure_airport,
   arrival_airport |-> arrival_airport, airline |-> airline]

\* a flight group of the provider's response: an object with its "flights"
\* list, an object without the key, or a value that is no object
Group(form, legs, price) == [form |-> form, legs |-> legs, price |-> price]

\* serpapi_tools.py:356-369  the normalised flight
Normalised(price, departure_time, arrival_time, airline, stops, return_flight) ==
  [price |-> price, departure_time |-> departure_time, arrival_time |-> arrival_time,
   airline |-> airline, stops |-> stops, return_flight |-> return_flight]

\* mutant of ArrivalLeg: the arrival is read from the first leg
ArrivalLegFirst(flight_legs) == flight_legs[1]

\* serpapi_tools.py:318  flights[-1]
ArrivalLeg(flight_legs) == flight_legs[Len(flight_legs)]

\* serpapi_tools.py:125  if flight_info
KeepFlight(flight_info) == flight_info.kind = "value"

\* serpapi_tools.py:292-372  _parse_flight; the groups have no "return_flights"
\* key, so return_flight_info is None (serpapi_tools.py:335-338)
parse_flight(flight_group) ==
  IF flight_group.form # "object" THEN RetNone
  ELSE IF flight_group.legs = <<>> THEN RetNone
  ELSE LET first_flight == flight_group.legs[1]
           last_flight == ArrivalLeg(flight_group.legs) IN
       IF first_flight.form # "object" \/ last_flight.form # "object" THEN RetNone
       ELSE LET departure_time == TimeOf_(first_flight.departure_airport)
                arrival_time == TimeOf_(last_flight.arrival_airport) IN
            IF departure_time.kind = "raise" \/ arrival_time.kind = "raise" THEN RetNone
            ELSE Ret(Normalised(Get(flight_group, "price", Num(0)),
                                departure_time.v, arrival_time.v,
                                Get(first_flight, "airline", Airline(0)),
                                Len(flight_group.legs) - 1, None))

\* a return flight as _parse_return_flight gives it (serpapi_tools.py:231-240)
ReturnFlight(airline, stops) == [airline |-> airline, stops |-> stops]

\* str.lower() of a value: only a string has it
HasLower(x) == x.t = "text"

Abs(n) == IF n < 0 THEN -n ELSE n

\* serpapi_tools.py:270-285  the score of a return flight
Score(outbound, rf) ==
  (IF rf.airline = outbound.airline THEN 10 ELSE 0)
    - Abs(rf.stops - outbound.stops) * 2
    + (IF outbound.stops = 0 /\ rf.stops = 0 THEN 5 ELSE 0)

\* serpapi_tools.py:246-289  _find_best_return_flight: None without return
\* flights, else the first of the best-scored (the sort is stable)
find_best_return_flight(outbound, return_flights) ==
  IF return_flights = <<>> THEN RetNone
  ELSE IF ~HasLower(outbound.airline)
          \/ \E k \in 1..Len(return_flights) : ~HasLower(return_flights[k].airline)
  THEN Raise
  ELSE LET best == CHOOSE k \in 1..Len(return_flights) :
                     /\ \A j \in 1..Len(return_flights) :
                          Score(outbound, return_flights[j]) <= Score(outbound, return_flights[k])
                     /\ \A j \in 1..(k - 1) :
                          Score(outbound, return_flights[j]) < Score(outbound, return_flights[k])
       IN Ret(return_flights[best])

\* serpapi_tools.py:123-126  the records that parse, in the order of the response
RECURSIVE ParseFlights(_)
ParseFlights(groups) ==
  IF groups = <<>> THEN <<>>
  ELSE LET flight_info == parse_flight(Head(groups)) IN
       (IF KeepFlight(flight_info) THEN <<flight_info.v>> ELSE <<>>)
         \o ParseFlights(Tail(groups))

\* serpapi_tools.py:119-144  search_flights from the provider's response on;
\* groups is best_flights + other_flights, return_flights is what
\* _search_return_flights came back with
search_flights(groups, round_trip, return_flights) ==
  LET all_flights == ParseFlights(groups) IN
  IF round_trip /\ all_flights # <<>>
  THEN IF \E i \in 1..Len(all_flights) :
            find_best_return_flight(all_flights[i], return_flights).kind = "raise"
       THEN Raise
       ELSE Ret([i \in 1..Len(all_flights) |->
                   LET best == find_best_return_flight(all_flights[i], return_flights) IN
                   [all_flights[i] EXCEPT
                      !.return_flight = IF best.kind = "none" THEN None ELSE best.v]])
  ELSE Ret(all_flights)

\* ------------------------------------------------- serpapi_tools.py: hotels
\* "$150"
Money(n) == Val("money", n)

\* a property of the provider's response; rate_per_night and total_rate
\* stand for the "lowest" of the object (Absent: no such key, None: the
\* object is null), ratings for the rating of the "Location" item of the
\* breakdown (Absent: no such item, BadName: an item whose name is no string)
Property(form, name, rate_per_night, total_rate, overall_rating, ratings, location_rating, check_in_time) ==
  [form |-> form, name |-> name, rate_per_night |-> rate_per_night,
   total_rate |-> total_rate, overall_rating |-> overall_rating, ratings |-> ratings,
   location_rating |-> location_rating, check_in_time |-> check_in_time]

BadName == Val("bad_name", 0)

\* rate.get("lowest", 0) for the object property_data.get(key, {})
Lowest(rate) ==
  IF rate = None THEN Raise
  ELSE IF rate = Absent THEN Ret(Num(0))
  ELSE Ret(rate)

\* serpapi_tools.py:490-491  float(price.replace("$", "").replace(",", "").strip() or 0)
ToFloat(price) ==
  IF price.t = "money" THEN Ret(Num(price.v))
  ELSE IF price.t = "empty" THEN Ret(Num(0))
  ELSE IF IsStr(price) THEN Raise
  ELSE Ret(price)

\* serpapi_tools.py:481-491
HotelPrice(property_data) ==
  LET rate_per_night == Lowest(property_data.rate_per_night) IN
  IF rate_per_night.kind = "raise" THEN Raise
  ELSE IF Truthy(rate_per_night.v) THEN ToFloat(rate_per_night.v)
  ELSE LET total_rate == Lowest(property_data.total_rate) IN
       IF total_rate.kind = "raise" THEN Raise ELSE ToFloat(total_rate.v)

\* serpapi_tools.py:501-514
HotelLocationRating(property_data) ==
  IF property_data.ratings = BadName THEN Raise
  ELSE LET location_rating ==
             IF property_data.ratings = Absent THEN Num(0)
             ELSE Or(property_data.ratings, Num(0)) IN
       IF Truthy(location_rating) THEN Ret(location_rating)
       ELSE Ret(Or(Get(property_data, "location_rating", Num(0)), Num(0)))

\* serpapi_tools.py:446  if hotel_info
KeepHotel(hotel_info) == hotel_info.kind = "value"

\* serpapi_tools.py:457-539  _parse_hotel
parse_hotel(property_data, check_in_date) ==
  IF property_data.form # "object" THEN RetNone
  ELSE LET price == HotelPrice(property_data)
           overall == Get(property_data, "overall_rating", Num(0))
           overall_rating == IF overall = None THEN Num(0) ELSE overall
           location_rating == HotelLocationRating(property_data) IN
       IF price.kind = "raise" \/ location_rating.kind = "raise" THEN RetNone
       ELSE Ret(Hotel(property_data.name, price.v, overall_rating, overall_rating,
                      location_rating.v, check_in_date,
                      Get(property_data, "check_in_time", Hm24(15, 0))))

\* serpapi_tools.py:440-450  search_hotels from the provider's response on
RECURSIVE search_hotels(_, _)
search_hotels(properties, check_in_date) ==
  IF properties = <<>> THEN <<>>
  ELSE LET hotel_info == parse_hotel(Head(properties), check_in_date) IN
       (IF KeepHotel(hotel_info) THEN <<hotel_info.v>> ELSE <<>>)
         \o search_hotels(Tail(properties), check_in_date)

\* ------------------------------------------------- the provider's responses
LegA == Leg("object", DtSpace(1, 6, 0), DtSpace(1, 8, 0), Airline(1))
LegB == Leg("object", DtSpace(1, 9, 0), DtSpace(1, 10, 0), Airline(2))
\* arrives in no supported format
LegC == Leg("object", DtSpace(1, 11, 0), Text, Airline(1))
\* no arrival time, no airline
LegD == Leg("object", NoTime, Absent, Absent)
\* the arrival airport is null, and so is the airline
LegE == Leg("object", Absent, None, None)
\* no JSON object
LegF == Leg("other", Absent, Absent, Absent)
\* arrives the next day; the airline is null
LegG == Leg("object", DtSpace(1, 22, 0), DtSpace(2, 18, 30), None)
Legs == {LegA, LegB, LegC, LegD, LegE, LegF, LegG}

\* every group of one to MaxLegs legs
Groups == {Group("object", l, Num(500)) : l \in BoundedSeq(Legs, MaxLegs) \ {<<>>}}

GroupA == Group("object", <<LegA>>, Num(500))
GroupB == Group("object", <<LegA, LegB>>, Num(520))
GroupC == Group("object", <<LegB, LegC>>, Absent)
GroupD == Group("object", <<LegB, LegA, LegD>>, Num(300))
GroupE == Group("object", <<LegE>>, Num(100))
GroupF == Group("object", <<>>, Num(100))
GroupG == Group("no_flights", <<>>, Num(100))
GroupH == Group("other", <<>>, Absent)
GroupI == Group("object", <<LegG>>, Num(450))
BatchGroups == {GroupA, GroupB, GroupC, GroupD, GroupE, GroupF, GroupG, GroupH, GroupI}

ReturnLists ==
  {<<>>, <<ReturnFlight(Airline(2), 1), ReturnFlight(Airline(1), 0)>>,
   <<ReturnFlight(None, 0)>>}

PropertyA == Property("object", "A", Num(100), Absent, Num(40), Num(42), Absent, Absent)
PropertyB == Property("object", "B", Absent, Money(80), Absent, Absent, Num(35), Hm24(21, 0))
PropertyC == Property("object", "C", Text, Absent, Num(45), Absent, Absent, Absent)
PropertyD == Property("object", "D", None, Num(50), Num(45), Absent, Absent, Absent)
PropertyE == Property("object", "E", EmptyStr, EmptyStr, None, None, None, None)
PropertyF == Property("object", "F", Num(70), Absent, Num(41), BadName, Absent, Absent)
PropertyG == Property("other", "", Absent, Absent, Absent, Absent, Absent, Absent)
Properties ==
  {PropertyA, PropertyB, PropertyC, PropertyD, PropertyE, PropertyF, PropertyG}

\* a provider response is about to be handled
ProviderInit ==
  /\ raw \in {[kind |-> "group", items |-> <<g>>, round_trip |-> FALSE,
               return_flights |-> <<>>] : g \in Groups}
       \cup {[kind |-> "flights", items |-> l, round_trip |-> w, return_flights |-> r] :
               l \in BoundedSeq(BatchGroups, MaxFlights), w \in BOOLEAN, r \in ReturnLists}
       \cup {[kind |-> "hotels", items |-> l, round_trip |-> FALSE,
               return_flights |-> <<>>] : l \in BoundedSeq(Properties, MaxHotels)}
  /\ offers = Unset
  /\ NoRequest
  /\ gap_hours \in {2}
  /\ flights = <<>>
  /\ hotels = <<>>
  /\ pc = "idle"
  /\ quality_hotels = Unset
  /\ idx = 0
  /\ arrival_datetime = Unset
  /\ valid_hotels = Unset
  /\ best_plan = RetNone
  /\ best_total_price = Inf
  /\ result = Unset
  /\ response = Unset
  /\ previous = Unset
  /\ NoTraffic

\* the variables the provider tools do not touch
nvars == <<flights, hotels, gap_hours, result, response, svars, cvars,
           shared, calls, clients, graph>>

\* serpapi_tools.py:124  _parse_flight on one group
ParseFlight ==
  /\ raw.kind = "group"
  /\ offers.kind = "unset"
  /\ offers' = parse_flight(raw.items[1])
  /\ UNCHANGED <<raw, nvars>>

\* serpapi_tools.py:119-144
SearchFlights ==
  /\ raw.kind = "flights"
  /\ offers.kind = "unset"
  /\ offers' = search_flights(raw.items, raw.round_trip, raw.return_flights)
  /\ UNCHANGED <<raw, nvars>>

\* serpapi_tools.py:440-450; the check-in date is the one asked for
SearchHotels ==
  /\ raw.kind = "hotels"
  /\ offers.kind = "unset"
  /\ offers' = Ret(search_hotels(raw.items, Ymd(1)))
  /\ UNCHANGED <<raw, nvars>>

ProviderNext == ParseFlight \/ SearchFlights \/ SearchHotels

ProviderSpec == ProviderInit /\ [][ProviderNext]_vars

\* ------------------------------------------------- tools.py: the transport
MaxRequests == 3
MaxExchanges == 2

\* the requests the supervisor process is serving at once
Requests == 1..MaxRequests

\* nothing of the search node, the optimizer or the provider tools is running
Elsewhere ==
  /\ NoRequest
  /\ NoSearch
  /\ flights = <<>>
  /\ hotels = <<>>
  /\ gap_hours = 2
  /\ pc = "idle"
  /\ quality_hotels = Unset
  /\ idx = 0
  /\ arrival_datetime = Unset
  /\ valid_hotels = Unset
  /\ best_plan = RetNone
  /\ best_total_price = Inf
  /\ result = Unset
  /\ response = Unset
  /\ previous = Unset

\* the variables the transport and the graph run do not touch
evars == <<flights, hotels, gap_hours, result, response, svars, cvars, raw, offers>>

\* what factory.create_transport does: it returns a new transport, returns
\* None, or raises
CreateOutcomes == {"transport", "none", "raises"}

\* mutant of get_transport: every call creates a transport of its own
get_transport_per_call(globals, outcome) ==
  IF globals.factory = 0 \/ outcome = "none" THEN [kind |-> "value", v |-> globals]
  ELSE IF outcome = "raises" THEN [kind |-> "raise", v |-> globals]
  ELSE [kind |-> "value", v |-> [globals EXCEPT !.transport = globals.created + 1,
                                                 !.created = globals.created + 1]]

\* tools.py:51-62  _get_transport: the globals after the call, whose transport
\* is what the call returns (0 is None); transports are numbered as created
get_transport(globals, outcome) ==
  IF globals.transport # 0 \/ globals.factory = 0 \/ outcome = "none"
  THEN [kind |-> "value", v |-> globals]
  ELSE IF outcome = "raises" THEN [kind |-> "raise", v |-> globals]
  ELSE [kind |-> "value", v |-> [globals EXCEPT !.transport = globals.created + 1,
                                                 !.created = globals.created + 1]]

\* the request is between two exchanges, with left more to make
Between(left) == [at |-> "idle", transport |-> 0, left |-> left]

TransportInit ==
  /\ shared = [factory |-> 0, transport |-> 0, created |-> 0]
  /\ calls \in [Requests -> {Between(left) : left \in 1..MaxExchanges}]
  /\ clients = {}
  /\ graph = Unset
  /\ Elsewhere

\* main.py:45, shared.py:19-30  set_factory at start-up
SetFactory ==
  /\ shared.factory = 0
  /\ shared' = [shared EXCEPT !.factory = 1]
  /\ UNCHANGED <<calls, clients, graph, evars>>

\* tools.py:79-93  _send_a2a_message up to its first await: get_factory,
\* _get_transport and the call of factory.create_client with the transport
SendA2AMessage(r) ==
  /\ calls[r].at = "idle"
  /\ calls[r].left > 0
  /\ \E outcome \in CreateOutcomes :
       LET got == get_transport(shared, outcome) IN
       IF shared.factory = 0
       THEN /\ shared' = shared
            /\ calls' = [calls EXCEPT ![r] = Between(calls[r].left - 1)]
       ELSE /\ shared' = got.v
            /\ calls' = [calls EXCEPT ![r] =
                 IF got.kind = "raise" \/ got.v.transport = 0
                 THEN Between(calls[r].left - 1)
                 ELSE [at |-> "create_client", transport |-> got.v.transport,
                       left |-> calls[r].left]]
  /\ UNCHANGED <<clients, graph, evars>>

\* tools.py:89-93  factory.create_client returns the client
CreateClient(r) ==
  /\ calls[r].at = "create_client"
  /\ clients' = clients \cup {[by |-> r, exchange |-> calls[r].left,
                               transport |-> calls[r].transport]}
  /\ calls' = [calls EXCEPT ![r].at = "send_message"]
  /\ UNCHANGED <<shared, graph, evars>>

\* tools.py:107-130  client.send_message returns or raises: the exchange is over
EndExchange(r) ==
  /\ calls[r].at = "send_message"
  /\ calls' = [calls EXCEPT ![r] = Between(calls[r].left - 1)]
  /\ UNCHANGED <<shared, clients, graph, evars>>

TransportNext ==
  \/ SetFactory
  \/ \E r \in Requests : SendA2AMessage(r)
  \/ \E r \in Requests : CreateClient(r)
  \/ \E r \in Requests : EndExchange(r)

TransportSpec == TransportInit /\ [][TransportNext]_vars

\* ------------------------------------------- graph.py: the supervisor graph
\* the content of the user's message, of the general node's reply, and the
\* contents the travel search node may reply with
Prompt == "prompt"
GeneralReply == "hello"
Replies == {"a", "b", "c"}

\* the last three messages of the state: _reflection_node looks at no others
LastThree(messages) ==
  IF Len(messages) > 3 THEN SubSeq(messages, Len(messages) - 2, Len(messages))
  ELSE messages

\* graph.py:1249-1252  the last message repeats the one two positions before
is_duplicate(messages) ==
  /\ Len(messages) > 2
  /\ messages[Len(messages)] = messages[Len(messages) - 2]

\* graph.py:1322-1324  the run starts at the entry point with the prompt
GraphInit ==
  /\ graph = [at |-> "supervisor", next_node |-> "", messages |-> <<Prompt>>]
  /\ shared = Unset
  /\ calls = Unset
  /\ clients = {}
  /\ Elsewhere

\* graph.py:162-214  the supervisor classifies the intent; the messages it
\* returns are those of the state (graph.py:135-142 routes on next_node)
SupervisorNode ==
  /\ graph.at = "supervisor"
  /\ \E intent \in {"travel_search", "general"} :
       graph' = [graph EXCEPT !.at = intent, !.next_node = intent]
  /\ UNCHANGED <<shared, calls, clients, evars>>

\* graph.py:216-274  the travel search node adds its reply; graph.py:145 leads
\* to reflection
TravelSearchReplies ==
  /\ graph.at = "travel_search"
  /\ \E content \in Replies :
       graph' = [graph EXCEPT !.at = "reflection",
                              !.messages = LastThree(Append(@, content))]
  /\ UNCHANGED <<shared, calls, clients, evars>>

\* graph.py:1261-1297  the general node replies and ends (graph.py:148)
GeneralResponseNode ==
  /\ graph.at = "general"
  /\ graph' = [graph EXCEPT !.at = "END", !.next_node = "END",
                            !.messages = LastThree(Append(@, GeneralReply))]
  /\ UNCHANGED <<shared, calls, clients, evars>>

\* graph.py:1205-1259  the reflection step answers nothing, should_continue or
\* not should_continue; graph.py:151-158 routes on next_node
ReflectionNode ==
  /\ graph.at = "reflection"
  /\ \E answer \in {"none", "continue", "stop"} :
       LET should_continue == answer = "continue" /\ ~is_duplicate(graph.messages)
           next_node == IF should_continue THEN "supervisor" ELSE "END" IN
       graph' = [graph EXCEPT !.at = next_node, !.next_node = next_node]
  /\ UNCHANGED <<shared, calls, clients, evars>>

GraphNext ==
  \/ SupervisorNode
  \/ TravelSearchReplies
  \/ GeneralResponseNode
  \/ ReflectionNode

GraphSpec == GraphInit /\ [][GraphNext]_vars

\* a node that can run does run
GraphLive == GraphSpec /\ WF_vars(GraphNext)

\* ==================================================================== claims
\* The words of the claims, stated on the offer records themselves.

\* the flight has a parseable arrival
Parseable(f) == extract_arrival_datetime(f).kind = "value"

\* hotel h is timing-valid for flight f under the configured gap
TimingValid(f, h) ==
  /\ Parseable(f)
  /\ get_hotel_checkin_datetime(h, extract_arrival_datetime(f).v).kind = "value"
  /\ HotelKept(h, extract_arrival_datetime(f).v, gap_hours)

\* flight.price + hotel.price x nights
PairCost(f, h, n) == PriceOf(f).v + PriceOf(h).v * n

\* a hotel's overall rating as a number, 0 when it has none
StatedOverall(h) ==
  IF h.overall_rating.t = "num" /\ h.overall_rating.v # 0 THEN h.overall_rating.v
  ELSE IF h.rating.t = "num" THEN h.rating.v ELSE 0

\* a hotel's location rating as a number, 0 when it has none
StatedLocation(h) == IF h.location_rating.t = "num" THEN h.location_rating.v ELSE 0

\* the check-in date of a hotel: its own, or else the day the flight lands
StatedCheckInDate(h, flight_arrival) ==
  IF h.check_in_date.t = "ymd" THEN h.check_in_date.v ELSE DateOf(flight_arrival)

\* the check-in time-of-day of a hotel: its own, or else 15:00
StatedCheckInTime(h) ==
  IF h.check_in_time.t \in {"hm24", "hm12"} THEN h.check_in_time.v ELSE At(0, 15, 0, 0)

\* filter_valid_hotels has returned for the flight the loop is at
Filtered == valid_hotels.kind = "value"

\* when the traveler of the last flight reaches the hotel
TravelerArrival == arrival_datetime.v + gap_hours * HOUR

\* C1: whenever a plan is returned, no pair of a flight with a parseable arrival
\* and a quality-filtered hotel that is timing-valid for it costs strictly less,
\* for the stay's number of nights, than the returned pair.
C1_NoCheaperPairForStay ==
  pc = "formatted" =>
    \A i \in 1..Len(flights) : \A j \in 1..Len(quality_hotels.v) :
      TimingValid(flights[i], quality_hotels.v[j]) =>
        PairCost(flights[i], quality_hotels.v[j], response.v.nights)
          >= PairCost(result.v.flight, result.v.hotel, response.v.nights)

\* C2: the total price the returned plan carries is the flight's price plus the
\* hotel's per-night price times the number of nights of the stay.
C2_TotalCountsEveryNight ==
  pc = "formatted" =>
    result.v.total_price
      = PairCost(result.v.flight, result.v.hotel, response.v.nights)

\* C3: find_cheapest_plan never raises; it returns None exactly when the flight
\* list is empty, the hotel list is empty, or no pair is timing-valid, and a
\* plan in every other case.
C3_NoneExactlyWhenNoPair ==
  pc \in {"done", "raised"} =>
    /\ pc = "done"
    /\ result.kind = "none" <=>
         \/ flights = <<>>
         \/ hotels = <<>>
         \/ ~ \E i \in 1..Len(flights) : \E j \in 1..Len(quality_hotels.v) :
                TimingValid(flights[i], quality_hotels.v[j])

\* C3, the part that holds: a call that returns returns None exactly in the
\* three cases (checked beside the claim; the claim itself also forbids raising).
C3_ReturnedNoneExactlyWhenNoPair ==
  pc = "done" =>
    (result.kind = "none" <=>
       \/ flights = <<>>
       \/ hotels = <<>>
       \/ ~ \E i \in 1..Len(flights) : \E j \in 1..Len(quality_hotels.v) :
              TimingValid(flights[i], quality_hotels.v[j]))

\* C4: when every hotel is rated below min_overall_rating and some hotel of the
\* unfiltered list is timing-valid for some flight with a parseable arrival,
\* a plan is returned.
C4_RatingFallbackFindsPlan ==
  ( /\ pc = "done"
    /\ \A j \in 1..Len(hotels) : StatedOverall(hotels[j]) < MIN_OVERALL_RATING
    /\ \E i \in 1..Len(flights) : \E j \in 1..Len(hotels) :
         TimingValid(flights[i], hotels[j]) )
  => result.kind = "value"

\* C5: a hotel the traveler reaches on its check-in date, at a time-of-day
\* strictly before its check-in time, is excluded by filter_valid_hotels.
C5_SameDayBeforeCheckInExcluded ==
  Filtered =>
    \A j \in 1..Len(quality_hotels.v) :
      LET h == quality_hotels.v[j] IN
      ( /\ DateOf(TravelerArrival) = StatedCheckInDate(h, arrival_datetime.v)
        /\ TimeOf(TravelerArrival) < StatedCheckInTime(h) )
      => h \notin Range(valid_hotels.v)

C7_GapMonotone ==
  Filtered =>
    \A g1 \in GapValues : g1 <= gap_hours =>
      \A h \in Range(valid_hotels.v) :
        h \in Range(filter_valid_hotels(quality_hotels.v, arrival_datetime.v, g1).v)

\* C7 as amended: for gaps 0 <= g1 <= g2, every hotel kept under g2 whose
\* check-in date is not later than the flight's arrival date is kept under g1.
C7_GapMonotoneNotLaterCheckIn ==
  Filtered =>
    \A g1 \in GapValues : g1 <= gap_hours =>
      \A h \in Range(valid_hotels.v) :
        StatedCheckInDate(h, arrival_datetime.v) <= DateOf(arrival_datetime.v) =>
          h \in Range(filter_valid_hotels(quality_hotels.v, arrival_datetime.v, g1).v)

\* C7 witness: a hotel with a check-in date not later than the flight's arrival
\* date is dropped under the configured gap and kept under a smaller one.
C7_LargerGapDropsHotel ==
  /\ Filtered
  /\ \E j \in 1..Len(quality_hotels.v) : \E g1 \in GapValues :
       LET h == quality_hotels.v[j] IN
       /\ g1 < gap_hours
       /\ StatedCheckInDate(h, arrival_datetime.v) <= DateOf(arrival_datetime.v)
       /\ h \notin Range(valid_hotels.v)
       /\ h \in Range(filter_valid_hotels(quality_hotels.v, arrival_datetime.v, g1).v)

\* neither the check-in date nor the check-in time of the hotel is there or parses
NoCheckInInstant(h) ==
  /\ h.check_in_date.t \in {"absent", "empty", "text"}
  /\ h.check_in_time.t \in {"absent", "empty", "text", "text_ampm"}

\* C8: a hotel for which no check-in instant can be established is kept by
\* filter_valid_hotels, whatever the flight arrival and the gap.
C8_NoCheckInInstantKept ==
  Filtered =>
    \A j \in 1..Len(quality_hotels.v) :
      NoCheckInInstant(quality_hotels.v[j]) =>
        quality_hotels.v[j] \in Range(valid_hotels.v)

\* C9: no offer record makes find_cheapest_plan or a filter it calls raise.
C9_NeverRaises == pc # "raised"

\* the rungs of the ladder, stated on the ratings
MeetsOverall(h) == StatedOverall(h) >= MIN_OVERALL_RATING
MeetsStrict(h) ==
  MeetsOverall(h) /\ (StatedLocation(h) > 0 => StatedLocation(h) >= MIN_LOCATION_RATING)
FirstNonEmpty(a, b, c, d) ==
  IF a # <<>> THEN a ELSE IF b # <<>> THEN b ELSE IF c # <<>> THEN c ELSE d

RatingThresholds ==
  {<<MIN_OVERALL_RATING, MIN_LOCATION_RATING>>, <<MIN_OVERALL_RATING, 0>>,
   <<RELAXED_OVERALL_RATING, MIN_LOCATION_RATING>>}

\* the list filter_hotels_by_rating returns for the hotels of the call
Rated(min_overall, min_location) ==
  filter_hotels_by_rating(hotels, min_overall, min_location)

Ended == pc \in {"done", "raised"}

\* price increments of the dearer copy
PriceSteps == {1, 100}

\* a copy of hotel h that differs only by a price higher by d
DearerCopy(h, d) == [h EXCEPT !.price = Num(PriceOf(h).v + d)]

\* list s with x inserted so that it becomes the k-th element
InsertAt(s, k, x) == SubSeq(s, 1, k - 1) \o <<x>> \o SubSeq(s, k, Len(s))

\* the hotel has a price that can be raised: a number, or none (counted as 0)
Priced(h) == h.price.t \in {"num", "absent", "none"}

\* the outcome of the call with a dearer copy of the j-th hotel as k-th hotel
WithDearerCopy(j, d, k) ==
  FindCheapestPlan(flights, InsertAt(hotels, k, DearerCopy(hotels[j], d)), gap_hours)

\* C12: adding to the hotel list, at any position, a copy of one of its hotels
\* that differs only by a higher price changes neither the kind of outcome of
\* find_cheapest_plan (a plan, None) nor the total price of the plan.
C12_DearerCopyKeepsTotal ==
  Ended =>
    \A j \in 1..Len(hotels) : \A d \in PriceSteps : \A k \in 1..(Len(hotels) + 1) :
      Priced(hotels[j]) =>
        /\ WithDearerCopy(j, d, k).kind = result.kind
        /\ result.kind = "value" =>
             WithDearerCopy(j, d, k).v.total_price = result.v.total_price

\* C12 witness: a plan was returned, and a dearer copy of its hotel placed at
\* the head of the list is timing-valid for the plan's flight and is passed over.
C12_DearerCopyOfChosenIgnored ==
  /\ pc = "done"
  /\ result.kind = "value"
  /\ \E j \in 1..Len(hotels) : \E d \in PriceSteps :
       /\ hotels[j] = result.v.hotel
       /\ TimingValid(result.v.flight, DearerCopy(hotels[j], d))
       /\ WithDearerCopy(j, d, 1).kind = "value"
       /\ WithDearerCopy(j, d, 1).v.hotel = result.v.hotel
       /\ WithDearerCopy(j, d, 1).v.total_price = result.v.total_price

\* two calls ended alike: the same plan, None both times, or an exception both times
SameOutcome(a, b) == a.kind = b.kind /\ (a.kind = "value" => a.v = b.v)

C14_BoundaryInclusive ==
  Filtered =>
    \A j \in 1..Len(quality_hotels.v) :
      LET h == quality_hotels.v[j] IN
      ( /\ DateOf(TravelerArrival) = StatedCheckInDate(h, arrival_datetime.v)
        /\ TimeOf(TravelerArrival) = StatedCheckInTime(h) )
      => h \in Range(valid_hotels.v)

\* C14 witness: the traveler reaches a hotel at its check-in instant, on a day
\* after the flight's 23:59 cut-off, and the hotel is kept.
C14_ArrivalAtCheckInInstant ==
  /\ Filtered
  /\ \E j \in 1..Len(quality_hotels.v) :
       LET h == quality_hotels.v[j] IN
       /\ DateOf(TravelerArrival) = StatedCheckInDate(h, arrival_datetime.v)
       /\ TimeOf(TravelerArrival) = StatedCheckInTime(h)
       /\ TravelerArrival > midnight_cutoff(arrival_datetime.v)
       /\ h \in Range(valid_hotels.v)

\* the plan pairs a flight and a hotel of the input lists, the flight has a
\* parseable arrival and the hotel is timing-valid for it under the plan's gap
PlanDrawnFromInputs(plan) ==
  /\ plan.flight \in Range(flights)
  /\ plan.hotel \in Range(hotels)
  /\ Parseable(plan.flight)
  /\ filter_valid_hotels(<<plan.hotel>>, extract_arrival_datetime(plan.flight).v,
                         plan.gap_hours) = Ret(<<plan.hotel>>)
  /\ plan.gap_hours = gap_hours

\* C15 as claimed: every returned plan pairs a flight and a hotel of the input
\* lists, timing-valid under the recorded gap, and its arrival_time is the
\* flight's arrival.
C15_PlanDrawnFromInputs ==
  (pc = "done" /\ result.kind = "value") =>
    /\ PlanDrawnFromInputs(result.v)
    /\ result.v.arrival_time.v = extract_arrival_datetime(result.v.flight).v

\* C15 as amended: the same, with arrival_time the flight's arrival cut to the
\* whole minute and written as "YYYY-MM-DD HH:MM".
C15_PlanDrawnArrivalToMinute ==
  (pc = "done" /\ result.kind = "value") =>
    LET arrival == extract_arrival_datetime(result.v.flight).v IN
    /\ PlanDrawnFromInputs(result.v)
    /\ result.v.arrival_time.t = "dt_space"
    /\ result.v.arrival_time.v = arrival - (arrival % 60)

\* C15 witness: the plan's flight lands at 23:00:30 and the plan says 23:00.
C15_SecondsDropped ==
  /\ pc = "done"
  /\ result.kind = "value"
  /\ result.v.flight = FlightC
  /\ extract_arrival_datetime(result.v.flight).v = At(1, 23, 0, 30)
  /\ result.v.arrival_time = DtSpace(1, 23, 0)

\* the cost find_cheapest_plan compares (travel_logic.py:417)
PairTotal(i, j) == PairCost(flights[i], quality_hotels.v[j], 1)

\* the pair (i, j) of a flight and a quality-filtered hotel is timing-valid
ValidPair(i, j) == TimingValid(flights[i], quality_hotels.v[j])

\* pair (i, j) is met before pair (i2, j2) in the iteration
MetBefore(i, j, i2, j2) == i < i2 \/ (i = i2 /\ j < j2)

\* (i, j) is the first of the valid pairs of minimum cost
FirstCheapest(i, j) ==
  /\ ValidPair(i, j)
  /\ \A i2 \in 1..Len(flights) : \A j2 \in 1..Len(quality_hotels.v) :
       ValidPair(i2, j2) =>
         \/ PairTotal(i2, j2) > PairTotal(i, j)
         \/ PairTotal(i2, j2) = PairTotal(i, j) /\ ~MetBefore(i2, j2, i, j)

\* C20: the plan returned is the pair met first, flights in input order and
\* within a flight the valid hotels in input order, among the timing-valid
\* pairs of minimum total cost.
C20_FirstOfCheapestReturned ==
  (pc = "done" /\ result.kind = "value") =>
    \A i \in 1..Len(flights) : \A j \in 1..Len(quality_hotels.v) :
      FirstCheapest(i, j) =>
        /\ result.v.flight = flights[i]
        /\ result.v.hotel = quality_hotels.v[j]
        /\ result.v.total_price = PairTotal(i, j)

\* C20 witness: two different pairs share the minimum cost and the plan is
\* the one met first.
C20_TieKeepsFirst ==
  /\ pc = "done"
  /\ result.kind = "value"
  /\ \E i \in 1..Len(flights) : \E j \in 1..Len(quality_hotels.v) :
       /\ FirstCheapest(i, j)
       /\ result.v.flight = flights[i]
       /\ result.v.hotel = quality_hotels.v[j]
       /\ \E i2 \in 1..Len(flights) : \E j2 \in 1..Len(quality_hotels.v) :
            /\ MetBefore(i, j, i2, j2)
            /\ ValidPair(i2, j2)
            /\ PairTotal(i2, j2) = PairTotal(i, j)
            /\ <<flights[i2], quality_hotels.v[j2]>> # <<flights[i], quality_hotels.v[j]>>

\* the text is a date in the form the request documents (YYYY-MM-DD)
IsDate(x) == Truthy(x) /\ ParseDate(x).kind = "value"

\* the start date or the end date is before the current date, or the end date
\* is before the start date
BadDates(params) ==
  \/ IsDate(params.start_date) /\ ParseDate(params.start_date).v < Today
  \/ IsDate(params.end_date) /\ ParseDate(params.end_date).v < Today
  \/ /\ IsDate(params.start_date)
     /\ IsDate(params.end_date)
     /\ ParseDate(params.end_date).v < ParseDate(params.start_date).v

\* C16: for every search intent other than activity-only, when the start date
\* or the end date is before the current date, or the end date is before the
\* start date, the travel search node returns a validation message, does not
\* raise, and issues no flight, hotel or activity query.
C16_BadDatesRejected ==
  (node # "start" /\ request.search_type # "activity_only" /\ BadDates(request))
    => /\ node = "done"
       /\ reply.kind = "validation"
       /\ reply.v \in {DatePassed, InvalidRange}
       /\ queries = <<>>
       /\ provider = <<>>

\* a hotel search from tomorrow back to today is turned down as an invalid
\* range, with no agent asked
C16_EndBeforeStartRejected ==
  /\ node = "done"
  /\ request.search_type = "hotel_only"
  /\ Truthy(request.destination)
  /\ request.start_date = Ymd(Today + 1)
  /\ request.end_date = Ymd(Today)
  /\ reply = Message("validation", InvalidRange)
  /\ queries = <<>>

\* the flight agent has answered the one-way request get_flights_via_a2a sent
OneWayAnswered ==
  /\ wire.kind = "replied"
  /\ wire.v.agent = "flight"
  /\ wire.v.by = "agent"
  /\ request.is_one_way

\* C17: one-way flight search works end to end: a request sent by
\* get_flights_via_a2a with is_one_way true, an origin, a destination and an
\* outbound date (no return date) is accepted by the flight agent, which
\* issues a one-way query to the provider, and the flights the provider
\* returns reach the supervisor as a non-empty list.
C17_OneWayReachesSupervisor ==
  OneWayAnswered
    => /\ provider # <<>>
       /\ LET search == provider[Len(provider)] IN
          /\ search.agent = "flight"
          /\ ~Truthy(search.params.return_date)
          /\ (search.found.kind = "value" /\ search.found.v # <<>>)
               => SameOutcome(get_via_a2a("flight", wire.v.response), Ret(search.found.v))

\* what the code does with a one-way request: the flight agent asks for the
\* return date it was not sent, its provider is not searched, and the
\* supervisor reads the refusal as an empty list
C17_OneWayRefused ==
  OneWayAnswered
    => /\ wire.v.message = flight_message(request.origin, request.destination,
                                          request.start_date, None, TRUE)
       /\ wire.v.response = Result(PlainText("missing"))
       /\ provider = <<>>
       /\ get_via_a2a("flight", wire.v.response) = Ret(<<>>)

\* the last exchange was with agent and did not bring the agent's list: the
\* message was not sent, the send raised, or what came back is anything but a
\* JSON object with status success
QueryFailed(agent) ==
  /\ wire.kind = "replied"
  /\ wire.v.agent = agent
  /\ ~(/\ wire.v.response.type = "result"
       /\ wire.v.response.text.form = "object"
       /\ wire.v.response.text.status = "success")

\* C18: in a full-trip search for which flights and hotels were found and a
\* plan was selected, any failure of the activity query (transport error,
\* error response, unparseable reply, raised exception) still yields the
\* response containing the selected flight and hotel plan, with an empty
\* activity list.
C18_ActivityFailureKeepsPlan ==
  (/\ node = "done"
   /\ request.search_type = "full_trip"
   /\ result.kind = "value"
   /\ QueryFailed("activity"))
    => /\ reply.kind = "plan"
       /\ reply.v.flight = result.v.flight
       /\ reply.v.hotel = result.v.hotel
       /\ reply.v.activities = <<>>
       /\ activities = <<>>
       /\ response = Ret(format_travel_plan(result.v, request))

\* get_activities_via_a2a raised on a reply that is JSON but no object, and
\* the plan of flight A and hotel A was returned all the same
C18_PlanDespiteRaisingActivityQuery ==
  /\ node = "done"
  /\ request.search_type = "full_trip"
  /\ wire.kind = "replied"
  /\ wire.v.agent = "activity"
  /\ wire.v.response = Result(JsonOther)
  /\ get_via_a2a("activity", wire.v.response) = Raise
  /\ reply = Message("plan", [flight |-> FlightA, hotel |-> HotelA, activities |-> <<>>])

\* what the node reports when agent brought no list
NoResults(agent) == IF agent = "flight" THEN "no_flights" ELSE "no_hotels"

\* the failed exchange with agent gave an empty list, no plan was looked for,
\* and the node, once done, reports no results
EmptyListReported(agent) ==
  /\ SameOutcome(get_via_a2a(agent, wire.v.response), Ret(<<>>))
  /\ result.kind = "unset"
  /\ node = "done" => reply.kind = NoResults(agent)

JsonOfNoObject ==
  wire.v.response.type = "result" /\ wire.v.response.text.form = "json"

\* what the code does: every failed exchange but a JSON reply that is no
\* object gives an empty list and a report of no results; that reply makes
\* get_*_via_a2a raise and the node report an error; in neither case is
\* find_cheapest_plan called
C19_EmptyListUnlessJsonOfNoObject ==
  \A agent \in {"flight", "hotel"} :
    QueryFailed(agent)
      => IF JsonOfNoObject
         THEN /\ get_via_a2a(agent, wire.v.response) = Raise
              /\ result.kind = "unset"
              /\ node = "done" => reply.kind = "error"
         ELSE EmptyListReported(agent)

\* search_flights or search_hotels has come back
Searched == offers.kind # "unset" /\ raw.kind \in {"flights", "hotels"}

\* the normalised flight has an arrival time find_cheapest_plan can use
UsableArrival(flight) == extract_arrival_datetime(flight).kind = "value"

\* C21: a flight group from which no usable arrival time can be obtained (last
\* leg without an arrival time, or an arrival time in no supported format) is
\* dropped by the flight normaliser: it does not appear in the list of
\* candidate flights returned by search_flights.
C21_NoArrivalDropped ==
  /\ (raw.kind = "group" /\ offers.kind = "value") => UsableArrival(offers.v)
  /\ (raw.kind = "flights" /\ offers.kind = "value")
       => \A k \in 1..Len(offers.v) : UsableArrival(offers.v[k])

\* what the leg states as its time: "" without the airport or its time
StatedTime(airport) == IF airport \in {Absent, NoTime} THEN EmptyStr ELSE airport

\* what the code does: _parse_flight drops a group only when it is no object,
\* has no legs, or its first or last leg is no object or has a null airport;
\* every other group is returned with the arrival time its last leg states,
\* usable or not
C21_DroppedOnlyWhenMalformed ==
  (raw.kind = "group" /\ offers.kind # "unset")
    => LET flight_group == raw.items[1]
           first_flight == flight_group.legs[1]
           last_flight == flight_group.legs[Len(flight_group.legs)] IN
       IF \/ first_flight.form # "object"
          \/ last_flight.form # "object"
          \/ first_flight.departure_airport = None
          \/ last_flight.arrival_airport = None
       THEN offers = RetNone
       ELSE /\ offers.kind = "value"
            /\ offers.v.arrival_time = StatedTime(last_flight.arrival_airport)

\* C22: for every flight group with one or more legs, the normalised flight's
\* departure time is the first leg's departure time and its arrival time is
\* the last leg's arrival time, whatever the number of legs; the arrival times
\* of intermediate legs are never used as the arrival.
C22_FirstDepartureLastArrival ==
  (raw.kind = "group" /\ offers.kind = "value")
    => LET flight_legs == raw.items[1].legs IN
       /\ offers.v.departure_time = StatedTime(flight_legs[1].departure_airport)
       /\ offers.v.arrival_time
            = StatedTime(flight_legs[Len(flight_legs)].arrival_airport)

\* a group of three legs whose three arrival times differ has been normalised
C22_ThreeLegsNormalised ==
  /\ raw.kind = "group"
  /\ offers.kind = "value"
  /\ LET flight_legs == raw.items[1].legs IN
     /\ Len(flight_legs) = 3
     /\ \A i, j \in 1..3 :
          i # j => flight_legs[i].arrival_airport # flight_legs[j].arrival_airport
     /\ offers.v.arrival_time = flight_legs[3].arrival_airport
     /\ offers.v.stops = 2

\* the i-th raw record of the provider's response parses
Parses(i) ==
  IF raw.kind = "flights" THEN parse_flight(raw.items[i]).kind = "value"
  ELSE parse_hotel(raw.items[i], Ymd(1)).kind = "value"

\* what the i-th raw record parses to
Parsed(i) ==
  IF raw.kind = "flights" THEN parse_flight(raw.items[i]).v
  ELSE parse_hotel(raw.items[i], Ymd(1)).v

\* the place in the result of the i-th raw record, when it parses
Rank(i) == Cardinality({j \in 1..i : Parses(j)})

\* the offer as it was parsed: search_flights attaches the return flight later
AsParsed(offer) ==
  IF raw.kind = "flights" THEN [offer EXCEPT !.return_flight = None] ELSE offer

\* the result is the records that parse, in provider order, and nothing else
Isolated ==
  /\ offers.kind = "value"
  /\ Len(offers.v) = Cardinality({i \in 1..Len(raw.items) : Parses(i)})
  /\ \A i \in 1..Len(raw.items) :
       Parses(i) => AsParsed(offers.v[Rank(i)]) = Parsed(i)

\* C23: batch isolation: in search_flights and search_hotels a raw record
\* whose parsing fails is left out of the result and every other record of the
\* same provider response that parses is still returned, in provider order;
\* one bad record never aborts the batch or raises.
C23_BatchIsolation == Searched => Isolated

\* what the code does: search_hotels isolates every bad record; search_flights
\* does so whenever it returns, and it raises exactly in a round-trip search
\* with return flights where a record that parsed, or a return flight, has an
\* airline that is no string
C23_IsolatedUnlessAirlineNoString ==
  Searched =>
    IF /\ raw.kind = "flights"
       /\ raw.round_trip
       /\ raw.return_flights # <<>>
       /\ \E i \in 1..Len(raw.items) : Parses(i)
       /\ \/ \E i \in 1..Len(raw.items) :
               Parses(i) /\ ~HasLower(Parsed(i).airline)
          \/ \E k \in 1..Len(raw.return_flights) :
               ~HasLower(raw.return_flights[k].airline)
    THEN offers.kind = "raise"
    ELSE Isolated

\* the agents the node has sent a query to, and those that went on to their
\* provider
Asked(agent) == \E k \in 1..Len(queries) : queries[k] = agent
Reached(agent) == \E k \in 1..Len(provider) : provider[k].agent = agent

\* the queries issued so far are the first ones of order, each at most once
QueriesWithin(order) ==
  /\ Len(queries) <= Len(order)
  /\ queries = SubSeq(order, 1, Len(queries))
  /\ \A agent \in {"flight", "hotel", "activity"} : Reached(agent) => Asked(agent)

\* C24: the search intent bounds the queries a request issues: flight-only
\* issues no hotel or activity query, hotel-only no flight or activity query,
\* activity-only no flight or hotel query, and full-trip issues the flight and
\* hotel queries and the activity query only after a plan has been selected.
C24_IntentBoundsQueries ==
  /\ request.search_type = "flight_only" => QueriesWithin(<<"flight">>)
  /\ request.search_type = "hotel_only" => QueriesWithin(<<"hotel">>)
  /\ request.search_type = "activity_only" => QueriesWithin(<<"activity">>)
  /\ request.search_type = "full_trip"
       => /\ QueriesWithin(<<"flight", "hotel", "activity">>)
          /\ Asked("hotel") => flights # <<>>
          /\ Asked("activity") => /\ result.kind = "value"
                                  /\ hotels # <<>>

\* a full trip has issued its three queries, the last one for a selected plan
C24_FullTripThreeQueries ==
  /\ request.search_type = "full_trip"
  /\ node = "done"
  /\ queries = <<"flight", "hotel", "activity">>
  /\ result.kind = "value"
  /\ reply.kind = "plan"

\* the fields the intent requires, the place of a hotel or activity search
\* being the request's destination
RequiredFields ==
  CASE request.search_type = "activity_only" -> {"destination"}
    [] request.search_type = "hotel_only" -> {"destination", "start_date", "end_date"}
    [] OTHER -> {"origin", "destination", "start_date"}

\* the required fields the request does not give
MissingFields == {field \in RequiredFields : request[field] \in {None, EmptyStr}}

\* no agent was queried and no provider reached
NothingIssued == queries = <<>> /\ provider = <<>>

\* the node has ended with a clarification message that names every missing field
Clarified ==
  /\ node = "done"
  /\ reply.kind = "clarification"
  /\ MissingFields \subseteq reply.v

PassedCheckOut ==
  IF request.search_type = "hotel_only" THEN request.end_date
  ELSE hotel_checkout_date(request)

\* C26: the hotel query keeps its arguments across the agent message
\* exchange: for every location string the supervisor passes to
\* get_hotels_via_a2a, including city names of several words such as
\* "San Diego, CA", the hotel agent calls the provider with exactly that
\* location, check-in date and check-out date.
C26_HotelQueryKeepsArguments ==
  \A k \in 1..Len(provider) :
    provider[k].agent = "hotel"
      => /\ provider[k].params.location = request.destination
         /\ provider[k].params.check_in = request.start_date
         /\ provider[k].params.check_out = PassedCheckOut

\* what the code does: the dates arrive as passed, and so does a location of
\* one word; of a location of several words the provider gets the first word
C26_HotelLocationCutAtFirstSpace ==
  \A k \in 1..Len(provider) :
    provider[k].agent = "hotel"
      => /\ provider[k].params.location
              = (IF request.destination = Phrase THEN FirstWord
                 ELSE request.destination)
         /\ provider[k].params.check_in = request.start_date
         /\ provider[k].params.check_out = PassedCheckOut

\* the activity query, which writes the spaces as underscores, keeps a
\* location of several words
C26_ActivityLocationKept ==
  \A k \in 1..Len(provider) :
    provider[k].agent = "activity"
      => provider[k].params.location = request.destination

\* the days from the start date to the end date of the request
StayDays == ParseDate(request.end_date).v - ParseDate(request.start_date).v

\* the nights of the claim: 1 for a one-way trip and without a start or an
\* end date that parses, otherwise the days of the stay, at least 1
ClaimedNights(one_way) ==
  IF one_way \/ ~IsDate(request.start_date) \/ ~IsDate(request.end_date) THEN 1
  ELSE IF StayDays > 1 THEN StayDays ELSE 1

\* the supervisor's hotel query of a full trip is on the wire
HotelQueried ==
  /\ request.search_type = "full_trip"
  /\ node = "hotel"
  /\ request.is_one_way \/ request.end_date \in {None, EmptyStr}

\* the check-out date of the hotel query on the wire
QueriedCheckOut == hotel_parse_request(wire.v.message).check_out

\* C27 as stated: the number of nights used to price the hotel stay is always
\* at least 1: it is 1 for a one-way trip and when the start or end date is
\* absent or unparseable, and otherwise the number of days from start date to
\* end date, never less than 1; for a one-way trip or a missing end date the
\* hotel check-out date queried is the start date plus one day.
C27_NightsAndNextDayCheckOut ==
  /\ response.kind = "value"
       => /\ response.v.nights >= 1
          /\ response.v.nights = ClaimedNights(request.is_one_way)
  /\ HotelQueried
       => /\ IsDate(request.start_date)
          /\ QueriedCheckOut = Ymd(ParseDate(request.start_date).v + 1)

\* C27, amended: the number of nights is always at least 1; in a full-trip
\* plan it is 1 for a one-way trip and when the start or end date is absent or
\* unparseable, and otherwise the days from start to end date, never less than
\* 1; in a hotel-only listing it is the same whether or not the request is
\* marked one-way; for a one-way trip or a missing end date the check-out date
\* queried is the start date plus one day when the start date parses, and the
\* start date's own text otherwise.  The first two conjuncts state it of the
\* functions for every request, the last two of what the node prices and sends.
C27_NightsAtLeastOne ==
  /\ /\ Nights(request) >= 1
     /\ Nights(request) = ClaimedNights(request.is_one_way)
     /\ hotel_nights(request) >= 1
     /\ hotel_nights(request) = ClaimedNights(FALSE)
  /\ (request.is_one_way \/ request.end_date \in {None, EmptyStr})
       => hotel_checkout_date(request)
            = (IF IsDate(request.start_date)
               THEN Ymd(ParseDate(request.start_date).v + 1)
               ELSE request.start_date)
  /\ response.kind = "value"
       => response.v.nights
            = (IF request.search_type = "full_trip" THEN Nights(request)
               ELSE hotel_nights(request))
  /\ HotelQueried => QueriedCheckOut = hotel_checkout_date(request)

\* a round trip without end date has been planned: the hotel was queried for
\* the day after the start date and the stay priced for one night
C27_NoEndDateOneNight ==
  /\ request.search_type = "full_trip"
  /\ request.end_date = None
  /\ IsDate(request.start_date)
  /\ node = "done"
  /\ reply.kind = "plan"
  /\ response.kind = "value"
  /\ response.v.nights = 1
  /\ response.v.hotel_total_price = PriceOf(result.v.hotel).v
  /\ \E k \in 1..Len(provider) :
       /\ provider[k].agent = "hotel"
       /\ provider[k].params.check_out = Ymd(ParseDate(request.start_date).v + 1)

\* C28: across any interleaving of concurrent requests in the supervisor
\* process, once the factory is set the inter-agent transport is created at
\* most once, and every A2A client of every request is created with that same
\* transport handle; no request creates its own transport.
C28_OneSharedTransport ==
  /\ shared.created <= 1
  /\ shared.factory = 0 => shared.created = 0
  /\ \A client \in clients :
       /\ client.transport # 0
       /\ client.transport = shared.transport
  /\ \A r \in Requests : calls[r].transport \in {0, shared.transport}

\* two requests are in the middle of an exchange at once, each with a client
\* of its own on the one transport
C28_TwoRequestsOneTransport ==
  /\ shared.created = 1
  /\ \E r1, r2 \in Requests :
       /\ r1 # r2
       /\ calls[r1].at = "send_message"
       /\ calls[r2].at = "send_message"
       /\ \E c1, c2 \in clients :
            /\ c1.by = r1
            /\ c2.by = r2
            /\ c1.transport = c2.transport

\* C29: every run of the supervisor graph reaches END: a request classified
\* as general ends after the general node, and the supervisor -> travel_search
\* -> reflection cycle cannot repeat forever, whatever the reflection step
\* answers for should_continue, because reflection ends the run when the last
\* message duplicates the message two positions before it.
C29_EveryRunReachesEnd == <>(graph.at = "END")

\* what the code does: the general node ends the run, and so does reflection
\* when it gets no answer, when the answer is not to continue, and when the
\* last message repeats the one two positions before it; a run goes round only
\* as long as the replies of the travel search node do not repeat in that way
C29_EndsOnGeneralOrDuplicate ==
  [][/\ graph.at = "general" => graph'.at = "END"
     /\ (graph.at = "reflection" /\ is_duplicate(graph.messages)) => graph'.at = "END"
     /\ (graph.at = "reflection" /\ graph'.at = "supervisor")
          => (Len(graph.messages) = 3 => graph.messages[3] # graph.messages[1])
     /\ graph.at = "END" => graph'.at = "END"]_vars

====
